---- MODULE Spec2Model ----
(***************************************************************************)
(* kedro-mlflow: partitioned datasets and the partitioned hook.            *)
(*                                                                         *)
(* State machine of MlflowPartitionedDataSet (find_children,               *)
(* start_child_run, _save, _load), of MlflowPartitionedHook and of the     *)
(* parts of the mlflow fluent API they drive: the run store and the        *)
(* process-wide active run stack.                                          *)
(***************************************************************************)
EXTENDS Integers, Sequences, FiniteSets, TLC

VARIABLES
    runs,           \* the run store: run id i is runs[i]
    stack,          \* mlflow_fluent._active_run_stack: the in-memory run objects
    parent_run_id,  \* MlflowPartitionedDataSet._parent_run_id of each dataset (0: None)
    hk_datasets,    \* MlflowPartitionedHook._datasets
    hk_history,     \* MlflowPartitionedHook._save_history
    th,             \* the call in flight (or last finished) of each caller
    ncalls,         \* calls started so far
    nopened,        \* runs the user code opened so far
    overlap,        \* history: some search ran while another call was between search and start
    returned,       \* history: what start_child_run returned, as <<parent id, partition, run id>>
    processed,      \* history: the outputs of the units after_node_run has processed (is_async)
    pdict,          \* a _ProtectedDict under test, with the data it was built from
    kp,             \* a mapping handed to _flatten_dict / _unflatten_dict, and the results
    fac,            \* a partitioned dataset's template, and the child configurations built
    cn,             \* os.environ, and the last call made on a connection
    ml              \* the last save of a MlflowModelLoggerDataSet

vars == <<runs, stack, parent_run_id, hk_datasets, hk_history, th, ncalls, nopened,
          overlap, returned, processed, pdict, kp, fac, cn, ml>>

\* ------------------------------------------------------------------ bounds

MaxCalls == 2
MaxOpen == 2
MaxInvoke == 2
MaxBuilds == 2

\* --------------------------------------------------------------- constants

MLFLOW_PARENT_RUN_ID == "mlflow.parentRunId"
MLFLOW_RUN_NAME == "mlflow.runName"
OWNER == "owner"

PartitionedType == "MlflowPartitionedDataSet"

\* class MlflowPartitionedModelLoggerDataSet(MlflowPartitionedDataSet)
ModelLoggerType == "MlflowPartitionedModelLoggerDataSet"

\* The catalog of the hook's test, two partitioned datasets and a CSV dataset, and a
\* dataset of the partitioned model logger type.
Catalog ==
    [metric |-> PartitionedType, metric_history |-> PartitionedType,
     model |-> ModelLoggerType, csv |-> "CSVDataSet"]

Datasets == {"metric", "metric_history"}
Hook == "hook"
Procs == Datasets \cup {Hook}

\* The key (artifact path) of each dataset's template.
Key(d) == IF d = "metric" THEN "foo" ELSE "bar"

Partitions == {"a", "b", "c"}

\* What save is handed: the batch in iteration order, the partition whose child
\* dataset fails ("": none), and whether it fails when built or when it saves.
SaveInputs ==
    { [batch |-> <<"a">>, bad |-> "", kind |-> "save"],
      [batch |-> <<"b", "a">>, bad |-> "", kind |-> "save"],
      [batch |-> <<"a", "b", "c">>, bad |-> "b", kind |-> "save"],
      [batch |-> <<"a">>, bad |-> "a", kind |-> "build"] }

\* The outputs of a unit of work: output name -> partition keys.
Units ==
    { [metric |-> {"a"}],
      [metric |-> {"a"}, metric_history |-> {"a", "b"}],
      [metric |-> {"a"}, csv |-> {"a"}] }

\* ----------------------------------------------------------------- helpers

Perms(S) ==
    {s \in [1..Cardinality(S) -> S] : \A i, j \in DOMAIN s : i # j => s[i] # s[j]}

Without(f, k) == [x \in DOMAIN f \ {k} |-> f[x]]

With(f, k, v) == [x \in DOMAIN f \cup {k} |-> IF x = k THEN v ELSE f[x]]

Ids(s) == [i \in DOMAIN s |-> s[i].id]

HasTag(r, k) == k \in DOMAIN runs[r].tags

NameOf(r) == IF HasTag(r, MLFLOW_RUN_NAME) THEN runs[r].tags[MLFLOW_RUN_NAME] ELSE ""

\* ---------------------------------------------------------- _ProtectedDict

\* __init__: the data and the protected keys.
ProtectedDict(data, protected) == [data |-> data, protected |-> protected]

SetItemAlways(pd, key, value) == [pd EXCEPT !.data = With(pd.data, key, value)]

\* __setitem__: a write to a protected key is dropped.
SetItem(pd, key, value) ==
    IF key \notin pd.protected THEN [pd EXCEPT !.data = With(pd.data, key, value)] ELSE pd

DeepCopyPlain(pd) == ProtectedDict(pd.data, {})

\* __deepcopy__: the copy protects the same keys.
DeepCopy(pd) == ProtectedDict(pd.data, pd.protected)

\* ------------------------------------------------------------ mlflow store

StartRunTagsPlain(tags, run_name) ==
    LET nested == IF Len(stack) > 0
                    THEN With(tags.data, MLFLOW_PARENT_RUN_ID, stack[Len(stack)].id)
                    ELSE tags.data
    IN  With(nested, MLFLOW_RUN_NAME, run_name)

\* mlflow.start_run(run_name=..., nested=True, tags=...): the tags are deep-copied,
\* the id of the active run is written under the parent key, then the run name.
StartRunTags(tags, run_name) ==
    LET copy == DeepCopy(tags)
        nested == IF Len(stack) > 0
                    THEN SetItem(copy, MLFLOW_PARENT_RUN_ID, stack[Len(stack)].id)
                    ELSE copy
    IN  SetItem(nested, MLFLOW_RUN_NAME, run_name).data

NewRun(tags) == [tags |-> tags, status |-> "RUNNING", data |-> {}]

SearchRunsAnyParent(pid) == {r \in 1..Len(runs) : HasTag(r, MLFLOW_PARENT_RUN_ID)}

\* mlflow.search_runs(filter_string='tags.mlflow.parentRunId = "<pid>"')
SearchRuns(pid) ==
    {r \in 1..Len(runs) :
        HasTag(r, MLFLOW_PARENT_RUN_ID) /\ runs[r].tags[MLFLOW_PARENT_RUN_ID] = pid}

\* ------------------------------------------------ MlflowPartitionedDataSet

\* The parent property: the configured run, else the first entry of the run stack.
Parent(d) ==
    IF parent_run_id[d] # 0
      THEN [ok |-> TRUE, id |-> parent_run_id[d], tags |-> runs[parent_run_id[d]].tags,
            ambient |-> FALSE]
      ELSE IF Len(stack) > 0
        THEN [ok |-> TRUE, id |-> stack[1].id, tags |-> stack[1].tags, ambient |-> TRUE]
        ELSE [ok |-> FALSE, id |-> 0, tags |-> <<>>, ambient |-> TRUE]

\* The rows of the search as a mapping run_name -> run_id: a later row replaces an
\* earlier one of the same name (DataFrame.to_dict).
ToDict(rows) ==
    LET names == {NameOf(rows[i]) : i \in DOMAIN rows}
        last(n) == CHOOSE i \in DOMAIN rows :
                      /\ NameOf(rows[i]) = n
                      /\ \A j \in DOMAIN rows : NameOf(rows[j]) = n => j <= i
    IN  [n \in names |-> rows[last(n)]]

\* The key the iteration of the mapping ends on: the name first seen last.
LastKey(rows) ==
    LET first(n) == CHOOSE i \in DOMAIN rows :
                       /\ NameOf(rows[i]) = n
                       /\ \A j \in DOMAIN rows : NameOf(rows[j]) = n => i <= j
    IN  CHOOSE n \in {NameOf(rows[i]) : i \in DOMAIN rows} :
            \A m \in {NameOf(rows[i]) : i \in DOMAIN rows} : first(m) <= first(n)

FindChildrenNone(pid) == {}

FindChildrenNewest(pid) == {r \in SearchRuns(pid) : \A q \in SearchRuns(pid) : q <= r}

\* find_children: the rows the search returns for the parent, in the store's order.
FindChildren(pid) == SearchRuns(pid)

\* ------------------------------------------------------------------ callers

Idle ==
    [pc |-> "idle", op |-> "none", ds |-> "", batch |-> <<>>, todo |-> <<>>,
     bad |-> "", badKind |-> "", found |-> 0, par |-> 0, stack0 |-> <<>>, nruns0 |-> 0,
     opened |-> <<>>, closed |-> <<>>, logged |-> <<>>, raised |-> "",
     res |-> "none", err |-> "", errAt |-> "",
     async |-> FALSE, outputs |-> <<>>, dsq |-> <<>>, problematic |-> {}, started |-> {},
     map |-> <<>>, cell |-> <<>>, fetches |-> <<>>]

Resting(p) == th[p].pc \in {"idle", "done", "loaded"}

Quiet == \A p \in Procs : Resting(p)

CanBegin(serial, p) ==
    /\ Resting(p)
    /\ hk_datasets # {}
    /\ ncalls < MaxCalls
    /\ serial => Quiet

Begin(p, op) ==
    [Idle EXCEPT !.op = op, !.stack0 = Ids(stack), !.nruns0 = Len(runs)]

\* The callers once p has begun the call t: the record of a finished call is dropped.
Entered(p, t) ==
    [q \in Procs |-> IF q = p THEN t ELSE IF th[q].pc = "done" THEN Idle ELSE th[q]]

Top == stack[Len(stack)]

PopNothing == stack

\* The run stack once mlflow.end_run has removed its top.
Pop == SubSeq(stack, 1, Len(stack) - 1)

Raise(t, err, at) ==
    [t EXCEPT !.pc = "done", !.res = "raised", !.err = err, !.errAt = at]

\* ------------------------------------------------------------------- _save

\* _save is entered: the loop over data.items() starts at the first partition.
Save(serial, d, batch, bad, badKind) ==
    /\ CanBegin(serial, d)
    /\ th' = Entered(d, [Begin(d, "save") EXCEPT !.pc = "find", !.ds = d, !.batch = batch,
                               !.todo = batch, !.bad = bad, !.badKind = badKind])
    /\ ncalls' = ncalls + 1
    /\ UNCHANGED <<runs, stack, parent_run_id, hk_datasets, hk_history, nopened,
                   overlap, returned, processed, pdict, kp, fac, cn, ml>>

\* start_child_run without its except clause: the DataSetError of find_children on a
\* parent without children leaves the call.
FindUncaught(p) ==
    /\ th[p].pc = "find"
    /\ LET t == th[p]
           par == Parent(t.ds)
           part == Head(t.todo)
       IN  IF ~par.ok
             THEN /\ th' = [th EXCEPT ![p] = Raise(t, "IndexError", part)]
                  /\ UNCHANGED overlap
             ELSE /\ \E rows \in Perms(FindChildren(par.id)) :
                        LET children == ToDict(rows)
                            found == IF part \in DOMAIN children THEN children[part] ELSE 0
                        IN  th' = [th EXCEPT ![p] =
                                     IF rows = <<>>
                                       THEN Raise([t EXCEPT !.par = par.id], "DataSetError", part)
                                       ELSE [t EXCEPT !.pc = "start", !.found = found,
                                                      !.par = par.id]]
                  /\ overlap' = (overlap \/ \E q \in Procs \ {p} : th[q].pc = "start")
    /\ UNCHANGED <<runs, stack, parent_run_id, hk_datasets, hk_history, ncalls, nopened,
                   returned, processed, pdict, kp, fac, cn, ml>>

\* start_child_run, first half: find_children and the lookup of the partition.
\* A parent without children raises DataSetError, which start_child_run passes over.
Find(p) ==
    /\ th[p].pc = "find"
    /\ LET t == th[p]
           par == Parent(t.ds)
           part == Head(t.todo)
       IN  IF ~par.ok
             THEN /\ th' = [th EXCEPT ![p] = Raise(t, "IndexError", part)]
                  /\ UNCHANGED overlap
             ELSE /\ \E rows \in Perms(FindChildren(par.id)) :
                        LET children == ToDict(rows)
                            found == IF part \in DOMAIN children THEN children[part] ELSE 0
                        IN  th' = [th EXCEPT ![p] =
                                     [t EXCEPT !.pc = "start", !.found = found,
                                               !.par = par.id]]
                  /\ overlap' = (overlap \/ \E q \in Procs \ {p} : th[q].pc = "start")
    /\ UNCHANGED <<runs, stack, parent_run_id, hk_datasets, hk_history, ncalls, nopened,
                   returned, processed, pdict, kp, fac, cn, ml>>

\* The tags of a new child: the parent's, less its run name, plus the parent's id.
ChildTags(par) == With(Without(par.tags, MLFLOW_RUN_NAME), MLFLOW_PARENT_RUN_ID, par.id)

\* start_child_run, second half: the found run is re-opened, else a run is created.
Start(p) ==
    /\ th[p].pc = "start"
    /\ LET t == th[p]
           part == Head(t.todo)
           par == Parent(t.ds)
       IN  IF t.found # 0
             THEN /\ runs' = [runs EXCEPT ![t.found].status = "RUNNING"]
                  /\ stack' = Append(stack, [id |-> t.found, tags |-> runs[t.found].tags])
                  /\ th' = [th EXCEPT ![p] =
                              [t EXCEPT !.pc = "body",
                                 !.opened = Append(@, [name |-> part, id |-> t.found,
                                                       new |-> FALSE])]]
                  /\ returned' = returned \cup {<<t.par, part, t.found>>}
             ELSE IF ~par.ok
               THEN /\ th' = [th EXCEPT ![p] = Raise(t, "IndexError", part)]
                    /\ UNCHANGED <<runs, stack, returned>>
               ELSE LET tags == ChildTags(par)
                        child == StartRunTags(ProtectedDict(tags, {MLFLOW_PARENT_RUN_ID}), part)
                        id == Len(runs) + 1
                        held == IF par.ambient THEN [stack EXCEPT ![1].tags = tags] ELSE stack
                    IN  /\ runs' = Append(runs, NewRun(child))
                        /\ stack' = Append(held, [id |-> id, tags |-> child])
                        /\ th' = [th EXCEPT ![p] =
                                    [t EXCEPT !.pc = "body", !.par = par.id,
                                       !.opened = Append(@, [name |-> part, id |-> id,
                                                             new |-> TRUE])]]
                        /\ returned' = returned \cup {<<par.id, part, id>>}
    /\ UNCHANGED <<parent_run_id, hk_datasets, hk_history, ncalls, nopened, overlap, processed, pdict, kp, fac, cn, ml>>

\* The body of the with block. _save: the child dataset is built and the payload is
\* saved into the active run. after_node_run: the partition is added to the history.
Body(p) ==
    /\ th[p].pc = "body"
    /\ Len(stack) > 0
    /\ LET t == th[p]
           part == Head(t.todo)
       IN  IF t.op = "hook"
             THEN /\ hk_history' = hk_history \cup {part}
                  /\ th' = [th EXCEPT ![p] = [t EXCEPT !.pc = "exit",
                                                        !.started = @ \cup {part}]]
                  /\ UNCHANGED runs
             ELSE IF part = t.bad
               THEN /\ th' = [th EXCEPT ![p] = [t EXCEPT !.pc = "exit",
                                                          !.raised = t.badKind]]
                    /\ UNCHANGED <<runs, hk_history>>
               ELSE /\ runs' = [runs EXCEPT ![Top.id].data = @ \cup {<<Key(t.ds), part>>}]
                    /\ th' = [th EXCEPT ![p] =
                                [t EXCEPT !.pc = "exit",
                                   !.logged = Append(@, [name |-> part, id |-> Top.id])]]
                    /\ UNCHANGED hk_history
    /\ UNCHANGED <<stack, parent_run_id, hk_datasets, ncalls, nopened, overlap, returned, processed, pdict, kp, fac, cn, ml>>

AfterExitContinue(t) ==
    IF Tail(t.todo) # <<>>
      THEN [t EXCEPT !.pc = "find", !.todo = Tail(@), !.found = 0]
      ELSE IF t.raised # ""
        THEN Raise(t, t.raised, Head(t.todo))
        ELSE IF t.op = "hook"
          THEN [t EXCEPT !.pc = "hookds", !.todo = <<>>, !.found = 0]
          ELSE [t EXCEPT !.pc = "done", !.todo = <<>>, !.found = 0, !.res = "ok"]

AfterExitLastFirst(t) ==
    LET rest == Tail(t.todo)
    IN  IF t.raised # ""
          THEN Raise(t, t.raised, Head(t.todo))
          ELSE IF rest # <<>>
            THEN [t EXCEPT !.pc = "find", !.found = 0,
                           !.todo = [i \in 1..Len(rest) |-> rest[Len(rest) + 1 - i]]]
            ELSE IF t.op = "hook"
              THEN [t EXCEPT !.pc = "hookds", !.todo = <<>>, !.found = 0]
              ELSE [t EXCEPT !.pc = "done", !.todo = <<>>, !.found = 0, !.res = "ok"]

\* What follows the with block: the exception leaves the loop, else the next partition.
AfterExit(t) ==
    IF t.raised # ""
      THEN Raise(t, t.raised, Head(t.todo))
      ELSE IF Tail(t.todo) # <<>>
        THEN [t EXCEPT !.pc = "find", !.todo = Tail(@), !.found = 0]
        ELSE IF t.op = "hook"
          THEN [t EXCEPT !.pc = "hookds", !.todo = <<>>, !.found = 0]
          ELSE [t EXCEPT !.pc = "done", !.todo = <<>>, !.found = 0, !.res = "ok"]

\* The exit of the with block: mlflow.end_run ends the run on top of the stack.
Exit(p) ==
    /\ th[p].pc = "exit"
    /\ LET t == th[p]
           status == IF t.raised = "" THEN "FINISHED" ELSE "FAILED"
       IN  IF Len(stack) > 0
             THEN /\ runs' = [runs EXCEPT ![Top.id].status = status]
                  /\ stack' = Pop
                  /\ th' = [th EXCEPT ![p] = AfterExit([t EXCEPT !.closed = Append(@, Top.id)])]
             ELSE /\ th' = [th EXCEPT ![p] = AfterExit(t)]
                  /\ UNCHANGED <<runs, stack>>
    /\ UNCHANGED <<parent_run_id, hk_datasets, hk_history, ncalls, nopened, overlap,
                   returned, processed, pdict, kp, fac, cn, ml>>

\* ------------------------------------------------------------------- _load

\* The pair a load thunk builds its dataset from when it is invoked under key k:
\* the lambda reads child_name and child_id of the comprehension, which hold the
\* last item of find_children().items() once _load has returned.
ThunkBinding(map, cell, k) == cell

\* _load: one thunk per key of find_children(); no child runs is a DataSetError.
Load(serial, d) ==
    /\ CanBegin(serial, d)
    /\ LET t == [Begin(d, "load") EXCEPT !.ds = d]
           par == Parent(d)
       IN  IF ~par.ok
             THEN th' = Entered(d, Raise(t, "IndexError", ""))
             ELSE \E rows \in Perms(FindChildren(par.id)) :
                    IF rows = <<>>
                      THEN th' = Entered(d, Raise([t EXCEPT !.par = par.id], "DataSetError", ""))
                      ELSE th' = Entered(d,
                                    [t EXCEPT !.pc = "loaded", !.res = "ok", !.par = par.id,
                                       !.map = ToDict(rows),
                                       !.cell = <<LastKey(rows), ToDict(rows)[LastKey(rows)]>>])
    /\ ncalls' = ncalls + 1
    /\ UNCHANGED <<runs, stack, parent_run_id, hk_datasets, hk_history, nopened,
                   overlap, returned, processed, pdict, kp, fac, cn, ml>>

FetchFirstResult(d, id) ==
    IF th[d].fetches # <<>>
      THEN th[d].fetches[1].value
      ELSE {x[2] : x \in {y \in runs[id].data : y[1] = Key(d)}}

\* What the child dataset built with run_id = id reads: the values logged under its key.
Fetch(d, id) == {x[2] : x \in {y \in runs[id].data : y[1] = Key(d)}}

\* The thunk stored under key k is invoked: the child dataset is built and loaded.
Invoke(d, k) ==
    /\ th[d].pc = "loaded"
    /\ k \in DOMAIN th[d].map
    /\ Len(th[d].fetches) < MaxInvoke
    /\ LET b == ThunkBinding(th[d].map, th[d].cell, k)
       IN  th' = [th EXCEPT ![d].fetches =
                    Append(@, [key |-> k, name |-> b[1], id |-> b[2],
                               value |-> Fetch(d, b[2])])]
    /\ UNCHANGED <<runs, stack, parent_run_id, hk_datasets, hk_history, ncalls, nopened,
                   overlap, returned, processed, pdict, kp, fac, cn, ml>>

\* -------------------------------------------------- MlflowPartitionedHook

IsExactlyPartitioned(type) == type = PartitionedType

\* isinstance(dataset, MlflowPartitionedDataSet): the class or a subclass of it.
IsPartitioned(type) == type \in {PartitionedType, ModelLoggerType}

\* after_catalog_created: the names of the partitioned datasets of the catalog.
AfterCatalogCreated ==
    /\ Quiet /\ ncalls = 0
    /\ hk_datasets' = hk_datasets \cup {n \in DOMAIN Catalog : IsPartitioned(Catalog[n])}
    /\ UNCHANGED <<runs, stack, parent_run_id, hk_history, th, ncalls, nopened, overlap,
                   returned, processed, pdict, kp, fac, cn, ml>>

CountAllOutputs(outputs, datasets, k) == Cardinality({n \in DOMAIN outputs : k \in outputs[n]})

\* Counter(chain(...)): in how many of the datasets' outputs the key occurs.
Count(outputs, datasets, k) == Cardinality({n \in datasets : k \in outputs[n]})

ProblematicAny(outputs, datasets) ==
    {k \in UNION {outputs[n] : n \in datasets} : Count(outputs, datasets, k) > 0}

\* The partitions at risk: the keys that occur in more than one output.
Problematic(outputs, datasets) ==
    {k \in UNION {outputs[n] : n \in datasets} : Count(outputs, datasets, k) > 1}

AfterNodeRunAnyway(serial, outputs, is_async) ==
    /\ CanBegin(serial, Hook)
    /\ LET t == [Begin(Hook, "hook") EXCEPT !.outputs = outputs, !.async = is_async]
           datasets == hk_datasets \cap DOMAIN outputs
       IN  \E dsq \in Perms(datasets) :
              th' = Entered(Hook,
                       [t EXCEPT !.pc = "hookds", !.dsq = dsq,
                          !.problematic = Problematic(outputs, datasets)])
    /\ ncalls' = ncalls + 1
    /\ UNCHANGED <<runs, stack, parent_run_id, hk_datasets, hk_history, nopened,
                   overlap, returned, processed, pdict, kp, fac, cn, ml>>

\* after_node_run is entered: nothing happens unless is_async.
AfterNodeRun(serial, outputs, is_async) ==
    /\ CanBegin(serial, Hook)
    /\ LET t == [Begin(Hook, "hook") EXCEPT !.outputs = outputs, !.async = is_async]
           datasets == hk_datasets \cap DOMAIN outputs
       IN  IF ~is_async
             THEN th' = Entered(Hook, [t EXCEPT !.pc = "done", !.res = "ok"])
             ELSE \E dsq \in Perms(datasets) :
                    th' = Entered(Hook,
                             [t EXCEPT !.pc = "hookds", !.dsq = dsq,
                                !.problematic = Problematic(outputs, datasets)])
    /\ ncalls' = ncalls + 1
    /\ UNCHANGED <<runs, stack, parent_run_id, hk_datasets, hk_history, nopened,
                   overlap, returned, processed, pdict, kp, fac, cn, ml>>

\* The loop over the datasets without the line that removes the confirmed keys.
HookDatasetAll ==
    /\ th[Hook].pc = "hookds"
    /\ LET t == th[Hook]
       IN  IF t.dsq = <<>>
             THEN /\ th' = [th EXCEPT ![Hook] = [t EXCEPT !.pc = "done", !.res = "ok"]]
                  /\ processed' = Append(processed, t.outputs)
             ELSE LET problematic == t.problematic
                      runs_to_start == problematic \cap t.outputs[Head(t.dsq)]
                  IN  /\ \E todo \in Perms(runs_to_start) :
                            th' = [th EXCEPT ![Hook] =
                                     [t EXCEPT !.pc = IF todo = <<>> THEN "hookds" ELSE "find",
                                        !.ds = Head(t.dsq), !.dsq = Tail(t.dsq),
                                        !.problematic = problematic, !.todo = todo]]
                      /\ UNCHANGED processed
    /\ UNCHANGED <<runs, stack, parent_run_id, hk_datasets, hk_history, ncalls, nopened,
                   overlap, returned, pdict, kp, fac, cn, ml>>

\* One turn of the loop over the datasets: the runs to start for the next dataset.
HookDataset ==
    /\ th[Hook].pc = "hookds"
    /\ LET t == th[Hook]
       IN  IF t.dsq = <<>>
             THEN /\ th' = [th EXCEPT ![Hook] = [t EXCEPT !.pc = "done", !.res = "ok"]]
                  /\ processed' = Append(processed, t.outputs)
             ELSE LET problematic == t.problematic \ hk_history
                      runs_to_start == problematic \cap t.outputs[Head(t.dsq)]
                  IN  /\ \E todo \in Perms(runs_to_start) :
                            th' = [th EXCEPT ![Hook] =
                                     [t EXCEPT !.pc = IF todo = <<>> THEN "hookds" ELSE "find",
                                        !.ds = Head(t.dsq), !.dsq = Tail(t.dsq),
                                        !.problematic = problematic, !.todo = todo]]
                      /\ UNCHANGED processed
    /\ UNCHANGED <<runs, stack, parent_run_id, hk_datasets, hk_history, ncalls, nopened,
                   overlap, returned, pdict, kp, fac, cn, ml>>

\* --------------------------------------------------------------- user code

UserRuns == {r \in 1..Len(runs) : NameOf(r) = "root"}

\* The parent setter: the dataset is given the id of a run as its parent.
SetParent(d, r) ==
    /\ Quiet
    /\ r \in UserRuns
    /\ parent_run_id[d] = 0
    /\ parent_run_id' = [parent_run_id EXCEPT ![d] = r]
    /\ UNCHANGED <<runs, stack, hk_datasets, hk_history, th, ncalls, nopened, overlap,
                   returned, processed, pdict, kp, fac, cn, ml>>

\* The user code opens a run: mlflow.start_run(run_name="root", nested=True).
StartRun ==
    /\ Quiet /\ ncalls = 0
    /\ nopened < MaxOpen
    /\ LET tags == StartRunTags(ProtectedDict((OWNER :> "u"), {}), "root")
       IN  /\ runs' = Append(runs, NewRun(tags))
           /\ stack' = Append(stack, [id |-> Len(runs) + 1, tags |-> tags])
    /\ nopened' = nopened + 1
    /\ UNCHANGED <<parent_run_id, hk_datasets, hk_history, th, ncalls, overlap, returned, processed, pdict, kp, fac, cn, ml>>

\* --------------------------------------------------------- key path utility

\* A string is the sequence of its pieces; a separator is one piece. A key of a
\* mapping is its text and whether it is a number; a value is a leaf or a mapping.
StrKey(s) == [num |-> FALSE, s |-> s]

NumKey(s) == [num |-> TRUE, s |-> s]

\* None, the parent of the top level.
NoKey == NumKey(<<>>)

Leaf(v) == [leaf |-> TRUE, v |-> v, m |-> <<>>]

Node(m) == [leaf |-> FALSE, v |-> <<>>, m |-> m]

\* reducer: f"{k1}{sep}{k2}" if k1 else str(k2)
Reducer(k1, k2, sep) ==
    IF k1 # NoKey /\ k1.s # <<>> THEN StrKey(k1.s \o <<sep>> \o k2.s) ELSE StrKey(k2.s)

RECURSIVE FlatItems(_, _, _, _, _, _)
\* flatten_dict.flatten: the items of the flat mapping, each with the path it came
\* from; a mapping is entered while depth < max_flatten_depth (0: no limit), and a
\* mapping without items leaves nothing.
FlatItems(d, depth, parent, path, maxdepth, sep) ==
    UNION { LET flat_key == Reducer(parent, k, sep)
            IN  IF ~d[k].leaf /\ (maxdepth = 0 \/ depth < maxdepth)
                  THEN FlatItems(d[k].m, depth + 1, flat_key, Append(path, k), maxdepth, sep)
                  ELSE {[key |-> flat_key, value |-> d[k], path |-> Append(path, k)]}
          : k \in DOMAIN d }

\* A flattening without a depth limit whatever the flag.
MaxFlattenDepthNone(recursive) == 0

\* max_flatten_depth=(None if recursive else 2)
MaxFlattenDepth(recursive) == IF recursive THEN 0 ELSE 2

\* _flatten_dict: a flat key produced twice is a ValueError.
FlattenDict(d, recursive, sep) ==
    LET items == FlatItems(d, 1, NoKey, <<>>, MaxFlattenDepth(recursive), sep)
        keys == {i.key : i \in items}
    IN  IF \E i, j \in items : i.key = j.key /\ i.path # j.path
          THEN [ok |-> FALSE, err |-> "ValueError", d |-> <<>>]
          ELSE [ok |-> TRUE, err |-> "",
                d |-> [k \in keys |-> (CHOOSE i \in items : i.key = k).value]]

\* A splitter that never splits.
SplitNever(s, sep) == <<s>>

RECURSIVE Split(_, _)
\* k.split(sep)
Split(s, sep) ==
    IF \E i \in DOMAIN s : s[i] = sep
      THEN LET i == CHOOSE i \in DOMAIN s : s[i] = sep /\ \A j \in 1..(i - 1) : s[j] # sep
           IN  <<SubSeq(s, 1, i - 1)>> \o Split(SubSeq(s, i + 1, Len(s)), sep)
      ELSE <<s>>

IsPrefix(p, q) == Len(p) <= Len(q) /\ SubSeq(q, 1, Len(p)) = p

RECURSIVE Nested(_)
\* nested_set_dict over all the items: the mapping rebuilt from key paths.
Nested(items) ==
    LET heads == {Head(i.path) : i \in items}
        under(h) == {i \in items : Head(i.path) = h}
    IN  [k \in {StrKey(h) : h \in heads} |->
            IF \E i \in under(k.s) : Len(i.path) = 1
              THEN (CHOOSE i \in under(k.s) : Len(i.path) = 1).value
              ELSE Node(Nested({[path |-> Tail(i.path), value |-> i.value] : i \in under(k.s)}))]

\* _unflatten_dict: a key that is no string cannot be split, and a key path that
\* runs through a value already set cannot be set.
UnflattenDict(d, sep) ==
    IF \E k \in DOMAIN d : k.num
      THEN [ok |-> FALSE, err |-> "AttributeError", d |-> <<>>]
      ELSE LET items == {[path |-> Split(k.s, sep), value |-> d[k]] : k \in DOMAIN d}
           IN  IF \E i, j \in items : i # j /\ IsPrefix(i.path, j.path)
                 THEN [ok |-> FALSE, err |-> "ValueError", d |-> <<>>]
                 ELSE [ok |-> TRUE, err |-> "", d |-> Nested(items)]

\* ------------------------------------------------- _new_child_dataset

\* The separator of _flatten_dict's default, and the one of _subname.
DOT == "."
SLASH == "/"

K(text) == StrKey(<<text>>)

\* {**self._dataset_config, **extra}
Merge(config, extra) ==
    [k \in DOMAIN config \cup DOMAIN extra |-> IF k \in DOMAIN extra THEN extra[k] ELSE config[k]]

\* A value of None in a configuration (a text is the sequence of its pieces).
NoneValue == <<"<None>">>

\* bool(part): the empty text and None are false.
Truthy(part) == part # <<>> /\ part # NoneValue

\* "/".join(parts)
Join(parts) ==
    IF parts = <<>> THEN <<>>
    ELSE IF Len(parts) = 1 THEN parts[1]
    ELSE parts[1] \o <<SLASH>> \o parts[2]

SubnameSuffixFirst(partition, suffix) == Join(SelectSeq(<<suffix, partition>>, Truthy))

SubnameKeepEmpty(partition, suffix) ==
    Join(<<partition, IF suffix = NoneValue THEN <<>> ELSE suffix>>)

\* _subname: "/".join of the parts that are not empty.
Subname(partition, suffix) == Join(SelectSeq(<<partition, suffix>>, Truthy))

\* The flat configuration once the loop over the dynamic parameters has run.
Patched(config, dynamic, child_name) ==
    [k \in DOMAIN config |->
        IF k.s \in dynamic THEN Leaf(Subname(child_name, config[k].v)) ELSE config[k]]

NewChildConfigInPlace(template, dynamic, child_name, extra) ==
    LET flat == FlattenDict(Merge(template, extra), TRUE, DOT)
        un == UnflattenDict(Patched(flat.d, dynamic, child_name), DOT)
    IN  [ok |-> flat.ok /\ un.ok, config |-> un.d,
         template |-> IF flat.ok /\ un.ok THEN un.d ELSE template]

\* _new_child_dataset up to the call of the dataset type: the configuration handed
\* to it, and the template as the call leaves it. The merge and the flattening
\* build new mappings, and the loop writes into the flat one.
NewChildConfig(template, dynamic, child_name, extra) ==
    LET flat == FlattenDict(Merge(template, extra), TRUE, DOT)
        un == UnflattenDict(Patched(flat.d, dynamic, child_name), DOT)
    IN  [ok |-> flat.ok /\ un.ok, config |-> un.d, template |-> template]

KnownFlavors == {<<"mlflow.sklearn">>}

DatasetTypeAnyFlavor(config) == IF K("flavor") \notin DOMAIN config THEN "TypeError" ELSE ""

\* MlflowModelLoggerDataSet(**config): flavor is required, and a flavor that does
\* not exist is a DataSetError.
DatasetType(config) ==
    IF K("flavor") \notin DOMAIN config THEN "TypeError"
    ELSE IF config[K("flavor")].v \notin KnownFlavors THEN "DataSetError"
    ELSE ""

\* _new_child_dataset: the outcome of the build.
NewChildDataset(template, dynamic, child_name, extra) ==
    LET c == NewChildConfig(template, dynamic, child_name, extra)
        err == IF c.ok THEN DatasetType(c.config) ELSE "ValueError"
    IN  [name |-> child_name, extra |-> extra, err |-> err,
         config |-> IF err = "" THEN c.config ELSE <<>>, template |-> c.template]

\* --------------------------------------------- MlflowModelLoggerDataSet

\* What log_model leaves in a run: the model under the artifact path.
MODEL == <<"model", "">>

Logged(rs, id) == [rs EXCEPT ![id].data = @ \cup {MODEL}]

\* with mlflow.start_run(run_id=id): ...: the run is opened, the body logs into it
\* and the exit ends it; the run stack is as before.
InRun(rs, stk, id) ==
    [res |-> "ok", err |-> "",
     events |-> <<<<"start_run", id>>, <<"log_model", id>>, <<"end_run", id>>>>,
     runs |-> [Logged(rs, id) EXCEPT ![id].status = "FINISHED"], stack |-> stk]

\* _save_model_in_run outside of a with block: log_model writes into the active
\* run, and opens a run that stays open when there is none.
InActiveRun(rs, stk) ==
    IF Len(stk) > 0
      THEN [res |-> "ok", err |-> "", events |-> <<<<"log_model", stk[Len(stk)].id>>>>,
            runs |-> Logged(rs, stk[Len(stk)].id), stack |-> stk]
      ELSE LET id == Len(rs) + 1
           IN  [res |-> "ok", err |-> "",
                events |-> <<<<"start_run", id>>, <<"log_model", id>>>>,
                runs |-> Logged(Append(rs, NewRun(<<>>)), id),
                stack |-> <<[id |-> id, tags |-> <<>>]>>]

ModelLoggerSaveNested(run_id, rs, stk) ==
    IF run_id # 0 THEN InRun(rs, stk, run_id) ELSE InActiveRun(rs, stk)

\* A save that raises only when the active run is not the one run_id names.
ModelLoggerSaveSameRun(run_id, rs, stk) ==
    IF run_id # 0
      THEN IF Len(stk) > 0
             THEN IF stk[Len(stk)].id # run_id
                    THEN [res |-> "raised", err |-> "DataSetError", events |-> <<>>,
                          runs |-> rs, stack |-> stk]
                    ELSE InActiveRun(rs, stk)
             ELSE InRun(rs, stk, run_id)
      ELSE InActiveRun(rs, stk)

\* MlflowModelLoggerDataSet._save: a run_id with a run active is a DataSetError.
ModelLoggerSave(run_id, rs, stk) ==
    IF run_id # 0
      THEN IF Len(stk) > 0
             THEN [res |-> "raised", err |-> "DataSetError", events |-> <<>>,
                   runs |-> rs, stack |-> stk]
             ELSE InRun(rs, stk, run_id)
      ELSE InActiveRun(rs, stk)

\* -------------------------------------------------- KedroMlflowConnection

\* None, as a value of a mapping, an environment variable's default or a result.
None == "<None>"

Ret(v) == [ok |-> TRUE, value |-> v, err |-> "", key |-> "", envkey |-> ""]

Raised(e) == [ok |-> FALSE, value |-> None, err |-> e, key |-> "", envkey |-> ""]

\* dict.get(key, default)
Get(mapping, key, default) == IF key \in DOMAIN mapping THEN mapping[key] ELSE default

GetKeyEnvFirst(mapping, key, envkey, default, environ) ==
    LET ret == Get(environ, envkey, Get(mapping, key, default))
    IN  IF ret = None
          THEN [Raised("KeyError") EXCEPT !.key = key, !.envkey = envkey]
          ELSE Ret(ret)

\* getkey: mapping.get(key, os.environ.get(envkey, default)); None is a KeyError
\* whose message names the key and the environment variable.
GetKey(mapping, key, envkey, default, environ) ==
    LET ret == Get(mapping, key, Get(environ, envkey, default))
    IN  IF ret = None
          THEN [Raised("KeyError") EXCEPT !.key = key, !.envkey = envkey]
          ELSE Ret(ret)

\* The connection classes: the module their base class is defined in.
FakeConnection == [name |-> "FakeConnection", base |-> "connection"]

DatabricksConnection == [name |-> "DatabricksConnection", base |-> "plugin"]

AzureMLConnection == [name |-> "AzureMLConnection", base |-> "connection"]

\* Workspace(...).get_mlflow_tracking_uri(): the workspace the three values name.
\* The first getkey that raises ends the call.
Workspace(mapping, environ) ==
    LET subscription_id == GetKey(mapping, "subscription_id", "AZUREML_SUBSCRIPTION_ID", None, environ)
        resource_group == GetKey(mapping, "resource_group", "AZUREML_RESOURCE_GROUP", None, environ)
        workspace_name == GetKey(mapping, "workspace_name", "AZUREML_WORKSPACE_NAME", None, environ)
    IN  IF ~subscription_id.ok THEN subscription_id
        ELSE IF ~resource_group.ok THEN resource_group
        ELSE IF ~workspace_name.ok THEN workspace_name
        ELSE Ret(<<subscription_id.value, resource_group.value, workspace_name.value>>)

\* tracking_uri of each class, called with the positional arguments args: a call
\* the signature does not accept is a TypeError.
\*   FakeConnection.tracking_uri(self, credentials, options)
\*   DatabricksConnection.tracking_uri(self, credentials=None)
\*   AzureMLConnection.tracking_uri(self, credentials)
TrackingUri(conn, args, environ) ==
    IF conn = FakeConnection
      THEN IF Len(args) = 2 THEN Ret(<<"fake">>) ELSE Raised("TypeError")
    ELSE IF conn = DatabricksConnection
      THEN IF Len(args) <= 1 THEN Ret(<<"databricks">>) ELSE Raised("TypeError")
    ELSE IF Len(args) = 1 THEN Workspace(args[1], environ) ELSE Raised("TypeError")

\* registry_uri of the base class, with the call of tracking_uri it makes.
\*   connection.py: registry_uri(self, credentials, options) calls
\*                  self.tracking_uri(credentials, options)
\*   plugin.py:     registry_uri(self, credentials=None) calls self.tracking_uri()
RegistryUri(conn, args, environ) ==
    IF conn.base = "connection"
      THEN IF Len(args) = 2
             THEN [res |-> TrackingUri(conn, args, environ), called |-> TRUE, passed |-> args]
             ELSE [res |-> Raised("TypeError"), called |-> FALSE, passed |-> <<>>]
      ELSE IF Len(args) <= 1
             THEN [res |-> TrackingUri(conn, <<>>, environ), called |-> TRUE, passed |-> <<>>]
             ELSE [res |-> Raised("TypeError"), called |-> FALSE, passed |-> <<>>]

\* ------------------------------------------------------------ specification

NoDict ==
    [pd |-> ProtectedDict(<<>>, {}), given |-> <<>>, copied |-> FALSE,
     last |-> [key |-> "", value |-> ""]]

\* No mapping is under test.
NoPaths == [m |-> <<>>, sep |-> "", stage |-> "none"]

\* No dataset is under construction.
NoFactory == [state |-> "none"]

\* No connection is in use.
NoConnection == [op |-> "none"]

\* No model logger dataset has saved.
NoLogger == [op |-> "none"]

InitMain ==
    /\ runs = <<>>
    /\ stack = <<>>
    /\ parent_run_id = [d \in Datasets |-> 0]
    /\ hk_datasets = {}
    /\ hk_history = {}
    /\ th = [p \in Procs |-> Idle]
    /\ ncalls = 0
    /\ nopened = 0
    /\ overlap = FALSE
    /\ returned = {}
    /\ processed = <<>>

Init ==
    /\ InitMain
    /\ pdict = NoDict /\ kp = NoPaths /\ fac = NoFactory
    /\ cn = NoConnection /\ ml = NoLogger

Step(serial) ==
    \/ \E d \in Datasets, in \in SaveInputs : Save(serial, d, in.batch, in.bad, in.kind)
    \/ \E p \in Procs : Find(p)
    \/ \E p \in Procs : Start(p)
    \/ \E p \in Procs : Body(p)
    \/ \E p \in Procs : Exit(p)
    \/ \E d \in Datasets : Load(serial, d)
    \/ \E d \in Datasets, k \in Partitions \cup {"root"} : Invoke(d, k)
    \/ AfterCatalogCreated
    \/ \E outputs \in Units, is_async \in BOOLEAN : AfterNodeRun(serial, outputs, is_async)
    \/ HookDataset
    \/ \E d \in Datasets, r \in 1..Len(runs) : SetParent(d, r)
    \/ StartRun

\* Calls may overlap: the datasets of a node are saved by threads when is_async.
Next == Step(FALSE)

Spec == Init /\ [][Next]_vars

\* Calls run one at a time: the sequential runner.
NextSeq == Step(TRUE)

SpecSeq == Init /\ [][NextSeq]_vars

\* ------------------------------------------- _ProtectedDict on its own

\* The values a tag can be given.
TagValues(key) == IF key = MLFLOW_PARENT_RUN_ID THEN {1, 2, 3} ELSE {"u", "v"}

\* The tag mappings start_child_run builds: the parent's tags with the parent's id.
GivenTags ==
    { (MLFLOW_PARENT_RUN_ID :> p) @@ (OWNER :> o) : p \in {1, 2}, o \in {"u", "v"} }
    \cup { (MLFLOW_PARENT_RUN_ID :> p) : p \in {1, 2} }

\* tags[key] = value on the mapping.
WriteTag(key, value) ==
    /\ pdict' = [pdict EXCEPT !.pd = SetItem(@, key, value),
                               !.last = [key |-> key, value |-> value]]
    /\ UNCHANGED <<runs, stack, parent_run_id, hk_datasets, hk_history, th, ncalls, nopened,
                   overlap, returned, processed, kp, fac, cn, ml>>

\* deepcopy(tags): the mapping is replaced by its deep copy.
CopyTags ==
    /\ pdict' = [pdict EXCEPT !.pd = DeepCopy(@), !.copied = TRUE]
    /\ UNCHANGED <<runs, stack, parent_run_id, hk_datasets, hk_history, th, ncalls, nopened,
                   overlap, returned, processed, kp, fac, cn, ml>>

InitProtected ==
    /\ InitMain
    /\ pdict \in { [pd |-> ProtectedDict(g, {MLFLOW_PARENT_RUN_ID}), given |-> g,
                     copied |-> FALSE, last |-> [key |-> "", value |-> ""]] : g \in GivenTags }
    /\ kp = NoPaths /\ fac = NoFactory
    /\ cn = NoConnection /\ ml = NoLogger

NextProtected ==
    \/ \E key \in {MLFLOW_PARENT_RUN_ID, MLFLOW_RUN_NAME, OWNER} :
          \E value \in TagValues(key) : WriteTag(key, value)
    \/ CopyTags

SpecProtected == InitProtected /\ [][NextProtected]_vars

\* ------------------------------------------ the key path utility on its own

\* The keys of the mappings under test: texts, one of them with a dot in it, and a number.
PathKeys == {StrKey(<<"a">>), StrKey(<<"b">>), StrKey(<<"c", DOT, "d">>), NumKey(<<"0">>)}

Separators == {DOT, "_"}

\* The mappings from at most n of the keys to the values.
MapsOver(keys, values, n) ==
    UNION {[S -> values] : S \in {T \in SUBSET keys : Cardinality(T) <= n}}

\* Mappings without nesting, nested one level, and nested two levels.
FlatMaps == MapsOver(PathKeys, {Leaf(<<"1">>)}, 2)

NestedOnce == MapsOver(PathKeys, {Leaf(<<"1">>)} \cup {Node(m) : m \in FlatMaps}, 2)

NestedTwice == MapsOver(PathKeys, {Node(m) : m \in NestedOnce}, 1)

\* _flatten_dict(d, recursive, sep) is called on the mapping.
Flatten(recursive) ==
    /\ kp.stage = "given"
    /\ kp' = [kp EXCEPT !.stage = "flat", !.recursive = recursive,
                        !.flat = FlattenDict(kp.m, recursive, kp.sep)]
    /\ UNCHANGED <<runs, stack, parent_run_id, hk_datasets, hk_history, th, ncalls, nopened,
                   overlap, returned, processed, pdict, fac, cn, ml>>

\* _unflatten_dict(d, sep) is called on the flat mapping.
Unflatten ==
    /\ kp.stage = "flat" /\ kp.flat.ok
    /\ kp' = [kp EXCEPT !.stage = "back", !.back = UnflattenDict(kp.flat.d, kp.sep)]
    /\ UNCHANGED <<runs, stack, parent_run_id, hk_datasets, hk_history, th, ncalls, nopened,
                   overlap, returned, processed, pdict, fac, cn, ml>>

NoResult == [ok |-> FALSE, err |-> "none", d |-> <<>>]

InitPaths ==
    /\ InitMain
    /\ pdict = NoDict /\ fac = NoFactory
    /\ cn = NoConnection /\ ml = NoLogger
    /\ kp \in { [m |-> m, sep |-> sep, stage |-> "given", recursive |-> TRUE,
                 flat |-> NoResult, back |-> NoResult]
                : m \in NestedOnce \cup NestedTwice, sep \in Separators }

NextPaths ==
    \/ \E recursive \in BOOLEAN : Flatten(recursive)
    \/ Unflatten

SpecPaths == InitPaths /\ [][NextPaths]_vars

\* ------------------------------------- the child-dataset factory on its own

SKLEARN == Leaf(<<"mlflow.sklearn">>)

REGISTERED_MODEL_NAME == <<"save_args", DOT, "registered_model_name">>

SaveArgs(name) == Node(K("registered_model_name") :> Leaf(name))

\* The data_set configurations a dataset is constructed with.
DataSetConfigs ==
    { <<>>,
      K("flavor") :> SKLEARN,
      K("flavor") :> Leaf(<<"mlflow.whoops">>),
      K("flavor") :> SKLEARN @@ K("save_args") :> SaveArgs(<<"test">>),
      K("flavor") :> SKLEARN @@ K("save_args") :> SaveArgs(<<>>),
      K("flavor") :> SKLEARN @@ K("artifact_path") :> Leaf(<<"model2">>)
          @@ K("save_args") :> Node(K("registered_model_name") :> Leaf(<<"test">>)
                                    @@ K("await_registration_for") :> Leaf(<<"5">>)) }

\* The dynamic_parameters a MlflowPartitionedDataSet is constructed with.
DynamicParameters == {{}, {REGISTERED_MODEL_NAME}, {<<"artifact_path">>, REGISTERED_MODEL_NAME}}

ChildNames == {<<"a">>, <<"b">>, <<"a", SLASH, "b">>}

\* The overrides of a build: none (_save), the run id (_load), a configuration.
Extras == {<<>>, K("run_id") :> Leaf(<<"r1">>), K("save_args") :> SaveArgs(<<"other">>)}

\* MlflowPartitionedDataSet.__init__: the template is the data_set configuration.
PartitionedInit(data_set, dynamic) ==
    /\ fac.state = "new" /\ fac.kind = "partitioned"
    /\ fac.data_set = data_set /\ fac.dynamic_parameters = dynamic
    /\ fac' = [fac EXCEPT !.state = "ready", !.config = data_set, !.dynamic = dynamic,
                           !.config0 = data_set, !.dynamic0 = dynamic,
                           !.nruns0 = Len(runs), !.stack0 = Ids(stack)]
    /\ UNCHANGED <<runs, stack, parent_run_id, hk_datasets, hk_history, th, ncalls, nopened,
                   overlap, returned, processed, pdict, kp, cn, ml>>

\* MlflowPartitionedModelLoggerDataSet.__init__ through from_config: the dynamic
\* parameter is the registered model name, and _validate builds the child "check";
\* from_config raises what the constructor raises as a DataSetError.
PartitionedModelLoggerInit(data_set) ==
    /\ fac.state = "new" /\ fac.kind = "model_logger"
    /\ fac.data_set = data_set
    /\ LET check == NewChildDataset(data_set, {REGISTERED_MODEL_NAME}, <<"check">>, <<>>)
       IN  fac' = [fac EXCEPT !.state = IF check.err = "" THEN "ready" ELSE "failed",
                              !.err = IF check.err = "" THEN "" ELSE "DataSetError",
                              !.cause = check.err,
                              !.config = check.template, !.dynamic = {REGISTERED_MODEL_NAME},
                              !.config0 = data_set, !.dynamic0 = {REGISTERED_MODEL_NAME},
                              !.nruns0 = Len(runs), !.stack0 = Ids(stack)]
    /\ UNCHANGED <<runs, stack, parent_run_id, hk_datasets, hk_history, th, ncalls, nopened,
                   overlap, returned, processed, pdict, kp, cn, ml>>

\* A call of _new_child_dataset on the constructed dataset, by _save (no overrides)
\* or by a load thunk (the run id as override).
Build(child_name, extra) ==
    /\ fac.state = "ready"
    /\ fac.nbuilds < MaxBuilds
    /\ LET b == NewChildDataset(fac.config, fac.dynamic, child_name, extra)
       IN  fac' = [fac EXCEPT !.config = b.template, !.nbuilds = @ + 1,
                              !.prev = fac.built,
                              !.built = [name |-> b.name, extra |-> b.extra, err |-> b.err,
                                         config |-> b.config]]
    /\ UNCHANGED <<runs, stack, parent_run_id, hk_datasets, hk_history, th, ncalls, nopened,
                   overlap, returned, processed, pdict, kp, cn, ml>>

\* The user code opens a run before the dataset is constructed.
StartRunBefore == fac.state = "new" /\ StartRun

NoBuild == [name |-> <<>>, extra |-> <<>>, err |-> "none", config |-> <<>>]

InitFactory ==
    /\ InitMain
    /\ pdict = NoDict /\ kp = NoPaths
    /\ cn = NoConnection /\ ml = NoLogger
    /\ fac \in { [state |-> "new", kind |-> kind, data_set |-> ds, dynamic_parameters |-> dyn,
                  config |-> <<>>, dynamic |-> {}, config0 |-> <<>>, dynamic0 |-> {},
                  err |-> "", cause |-> "", nruns0 |-> 0, stack0 |-> <<>>,
                  nbuilds |-> 0, built |-> NoBuild, prev |-> NoBuild]
                 : kind \in {"partitioned", "model_logger"}, ds \in DataSetConfigs,
                   dyn \in DynamicParameters }

NextFactory ==
    \/ \E ds \in DataSetConfigs, dyn \in DynamicParameters : PartitionedInit(ds, dyn)
    \/ \E ds \in DataSetConfigs : PartitionedModelLoggerInit(ds)
    \/ \E n \in ChildNames, e \in Extras : Build(n, e)
    \/ StartRunBefore

SpecFactory == InitFactory /\ [][NextFactory]_vars

\* --------------------------------------------- partition keys with separators

\* A batch whose keys differ in empty and trailing components only.
NameKeys == <<"a/b", "a//b", "a/b/">>

\* Saves and loads of that batch, one call at a time.
NextNames ==
    \/ \E d \in Datasets : Save(TRUE, d, NameKeys, "", "save")
    \/ \E p \in Procs : Find(p)
    \/ \E p \in Procs : Start(p)
    \/ \E p \in Procs : Body(p)
    \/ \E p \in Procs : Exit(p)
    \/ \E d \in Datasets : Load(TRUE, d)
    \/ \E d \in Datasets, i \in DOMAIN NameKeys : Invoke(d, NameKeys[i])
    \/ AfterCatalogCreated
    \/ StartRun

SpecNames == Init /\ [][NextNames]_vars

\* ------------------------------------- the hook, then the saves of the outputs

\* The unit the hook has processed last.
LastUnit == processed[Len(processed)]

\* The runner saves output d of the unit the hook has just processed; the saves of a
\* unit's outputs overlap (is_async). _save is entered as in Save.
SaveOutput(d, batch) ==
    /\ processed # <<>> /\ th[Hook].pc = "done"
    /\ d \in DOMAIN LastUnit
    /\ batch \in Perms(LastUnit[d])
    /\ th[d].pc = "idle"
    /\ \A q \in Datasets : parent_run_id[q] = parent_run_id[d]
    /\ parent_run_id[d] # 0 => Len(processed) > 1
    /\ th' = [th EXCEPT ![d] = [Begin(d, "save") EXCEPT !.pc = "find", !.ds = d,
                                   !.batch = batch, !.todo = batch]]
    /\ ncalls' = ncalls + 1
    /\ UNCHANGED <<runs, stack, parent_run_id, hk_datasets, hk_history, nopened,
                   overlap, returned, processed, pdict, kp, fac, cn, ml>>

\* Between two units the user code gives the datasets another parent.
SetParentBetweenUnits(d, r) ==
    /\ Len(processed) = 1 /\ th[Hook].pc = "done"
    /\ \A q \in Datasets : th[q].pc = "idle"
    /\ SetParent(d, r)

NextHook ==
    \/ AfterCatalogCreated
    \/ StartRun
    \/ \E outputs \in Units : AfterNodeRun(TRUE, outputs, TRUE)
    \/ HookDataset
    \/ \E p \in Procs : Find(p)
    \/ \E p \in Procs : Start(p)
    \/ \E p \in Procs : Body(p)
    \/ \E p \in Procs : Exit(p)
    \/ \E d \in Datasets, b \in UNION {Perms(S) : S \in SUBSET Partitions} : SaveOutput(d, b)
    \/ \E d \in Datasets, r \in 1..Len(runs) : SetParentBetweenUnits(d, r)

SpecHook == Init /\ [][NextHook]_vars

\* ------------------------------------------------ saves that succeed, and loads

\* The batches of the saves: every delegate save succeeds.
GoodBatches == {<<"a">>, <<"b", "a">>, <<"c">>}

\* Saves and loads, one call at a time, by datasets with ambient or configured parents.
NextSaves ==
    \/ \E d \in Datasets, batch \in GoodBatches : Save(TRUE, d, batch, "", "save")
    \/ \E p \in Procs : Find(p)
    \/ \E p \in Procs : Start(p)
    \/ \E p \in Procs : Body(p)
    \/ \E p \in Procs : Exit(p)
    \/ \E d \in Datasets : Load(TRUE, d)
    \/ AfterCatalogCreated
    \/ \E d \in Datasets, r \in 1..Len(runs) : SetParent(d, r)
    \/ StartRun

SpecSaves == Init /\ [][NextSaves]_vars

\* ------------------------------------------- load thunks and later writes

\* A value logged into a run after the partitioned save.
LATER == "later"

\* MlflowMetricsDataSet(run_id=r).save(...) by another holder of the dataset's key:
\* client.log_metric writes into the run r, whatever run is active.
MetricsSave(d, r) ==
    /\ Quiet
    /\ th[d].pc = "loaded"
    /\ r \in 1..Len(runs) /\ HasTag(r, MLFLOW_PARENT_RUN_ID) /\ NameOf(r) # "root"
    /\ <<Key(d), LATER>> \notin runs[r].data
    /\ runs' = [runs EXCEPT ![r].data = @ \cup {<<Key(d), LATER>>}]
    /\ UNCHANGED <<stack, parent_run_id, hk_datasets, hk_history, th, ncalls, nopened,
                   overlap, returned, processed, pdict, kp, fac, cn, ml>>

NextThunks ==
    \/ NextSeq
    \/ \E d \in Datasets, r \in 1..Len(runs) : MetricsSave(d, r)

SpecThunks == Init /\ [][NextThunks]_vars

\* ----------------------------------- the model logger dataset on its own

\* MlflowModelLoggerDataSet(run_id=run_id).save(model); run_id 0 is None.
ModelLoggerSaveCall(run_id) ==
    /\ run_id \in 0..Len(runs)
    /\ (run_id = 0 /\ stack = <<>>) => nopened < MaxOpen
    /\ LET r == ModelLoggerSave(run_id, runs, stack)
       IN  /\ runs' = r.runs
           /\ stack' = r.stack
           /\ nopened' = IF Len(r.runs) > Len(runs) THEN nopened + 1 ELSE nopened
           /\ ml' = [op |-> "save", run_id |-> run_id, res |-> r.res, err |-> r.err,
                     events |-> r.events, runs0 |-> runs, stack0 |-> stack,
                     runs1 |-> r.runs, stack1 |-> r.stack]
    /\ UNCHANGED <<parent_run_id, hk_datasets, hk_history, th, ncalls, overlap, returned,
                   processed, pdict, kp, fac, cn>>

\* The user code ends the active run: mlflow.end_run().
EndRun ==
    /\ Len(stack) > 0
    /\ runs' = [runs EXCEPT ![Top.id].status = "FINISHED"]
    /\ stack' = Pop
    /\ UNCHANGED <<parent_run_id, hk_datasets, hk_history, th, ncalls, nopened, overlap,
                   returned, processed, pdict, kp, fac, cn, ml>>

NextLogger ==
    \/ \E run_id \in 0..MaxOpen : ModelLoggerSaveCall(run_id)
    \/ StartRun
    \/ EndRun

SpecLogger == Init /\ [][NextLogger]_vars

\* ------------------------------ partitioned saves of model logger datasets

\* MlflowPartitionedModelLoggerDataSet(data_set={"run_id": run_id, ...}).save(batch):
\* _save is entered as in Save; the template's run_id (0: none) goes to every child.
SaveModels(d, batch, run_id) ==
    /\ CanBegin(TRUE, d)
    /\ run_id \in 0..Len(runs)
    /\ th' = Entered(d, [run_id |-> run_id] @@
                           [Begin(d, "save") EXCEPT !.pc = "find", !.ds = d, !.batch = batch,
                                                    !.todo = batch])
    /\ ncalls' = ncalls + 1
    /\ UNCHANGED <<runs, stack, parent_run_id, hk_datasets, hk_history, nopened,
                   overlap, returned, processed, pdict, kp, fac, cn, ml>>

\* The body of the with block of _save: the child MlflowModelLoggerDataSet is built
\* with the template's run_id and saves the model; what it raises leaves the block.
ModelBody(p) ==
    /\ th[p].pc = "body"
    /\ LET t == th[p]
           part == Head(t.todo)
           r == ModelLoggerSave(t.run_id, runs, stack)
       IN  /\ runs' = r.runs
           /\ stack' = r.stack
           /\ ml' = [op |-> "save", run_id |-> t.run_id, res |-> r.res, err |-> r.err,
                     events |-> r.events, runs0 |-> runs, stack0 |-> stack,
                     runs1 |-> r.runs, stack1 |-> r.stack]
           /\ th' = [th EXCEPT ![p] =
                       IF r.res = "raised"
                         THEN [t EXCEPT !.pc = "exit", !.raised = r.err]
                         ELSE [t EXCEPT !.pc = "exit",
                                 !.logged = Append(@, [name |-> part, id |-> Top.id])]]
    /\ UNCHANGED <<parent_run_id, hk_datasets, hk_history, ncalls, nopened, overlap,
                   returned, processed, pdict, kp, fac, cn>>

\* The user code ends the active run between two calls.
EndRunBetweenCalls == Quiet /\ EndRun

\* A save on a model logger dataset of its own, between two calls.
ModelLoggerSaveBetweenCalls(run_id) == Quiet /\ ModelLoggerSaveCall(run_id)

NextModels ==
    \/ AfterCatalogCreated
    \/ StartRun
    \/ EndRunBetweenCalls
    \/ \E run_id \in 0..MaxOpen : ModelLoggerSaveBetweenCalls(run_id)
    \/ \E d \in Datasets, batch \in GoodBatches, run_id \in 0..(MaxOpen + MaxCalls) :
          SaveModels(d, batch, run_id)
    \/ \E p \in Datasets : Find(p)
    \/ \E p \in Datasets : Start(p)
    \/ \E p \in Datasets : ModelBody(p)
    \/ \E p \in Datasets : Exit(p)

SpecModels == Init /\ [][NextModels]_vars

\* ------------------------------------------------ connections on their own

\* os.environ: which of the variables are set.
EnvValues ==
    [AZUREML_SUBSCRIPTION_ID |-> "a", AZUREML_RESOURCE_GROUP |-> "b",
     AZUREML_WORKSPACE_NAME |-> "c", KEY |-> "value"]

Environs == {[v \in S |-> EnvValues[v]] : S \in SUBSET DOMAIN EnvValues}

\* The credentials and options a connection is called with.
OptionMaps ==
    {[k \in S |-> "1234"] : S \in SUBSET {"subscription_id", "resource_group", "workspace_name"}}

\* The positional arguments of a call: none, credentials, credentials and options.
Arguments == {<<>>} \cup {<<c>> : c \in OptionMaps} \cup {<<<<>>, o>> : o \in OptionMaps}

\* The mappings getkey is called with.
KeyMaps == {<<>>, [key |-> "val"], [key |-> None], [other |-> "x"]}

Connections == {FakeConnection, DatabricksConnection, AzureMLConnection}

\* connection.getkey(mapping, "key", envkey, default)
GetKeyCall(mapping, envkey, default) ==
    /\ cn.op # "none"
    /\ cn' = [environ |-> cn.environ, op |-> "getkey", conn |-> FakeConnection,
              args |-> <<mapping, "key", envkey, default>>,
              res |-> GetKey(mapping, "key", envkey, default, cn.environ),
              called |-> FALSE, passed |-> <<>>]
    /\ UNCHANGED <<runs, stack, parent_run_id, hk_datasets, hk_history, th, ncalls, nopened,
                   overlap, returned, processed, pdict, kp, fac, ml>>

\* connection.tracking_uri(*args)
TrackingUriCall(conn, args) ==
    /\ cn.op # "none"
    /\ cn' = [environ |-> cn.environ, op |-> "tracking_uri", conn |-> conn, args |-> args,
              res |-> TrackingUri(conn, args, cn.environ), called |-> TRUE, passed |-> args]
    /\ UNCHANGED <<runs, stack, parent_run_id, hk_datasets, hk_history, th, ncalls, nopened,
                   overlap, returned, processed, pdict, kp, fac, ml>>

\* connection.registry_uri(*args)
RegistryUriCall(conn, args) ==
    /\ cn.op # "none"
    /\ LET r == RegistryUri(conn, args, cn.environ)
       IN  cn' = [environ |-> cn.environ, op |-> "registry_uri", conn |-> conn, args |-> args,
                  res |-> r.res, called |-> r.called, passed |-> r.passed]
    /\ UNCHANGED <<runs, stack, parent_run_id, hk_datasets, hk_history, th, ncalls, nopened,
                   overlap, returned, processed, pdict, kp, fac, ml>>

InitConnection ==
    /\ InitMain
    /\ pdict = NoDict /\ kp = NoPaths /\ fac = NoFactory /\ ml = NoLogger
    /\ cn \in { [environ |-> e, op |-> "start", conn |-> FakeConnection, args |-> <<>>,
                 res |-> Raised("none"), called |-> FALSE, passed |-> <<>>] : e \in Environs }

NextConnection ==
    \/ \E m \in KeyMaps, e \in {"KEY", "default"}, d \in {None, "default"} : GetKeyCall(m, e, d)
    \/ \E c \in Connections, a \in Arguments : TrackingUriCall(c, a)
    \/ \E c \in Connections, a \in Arguments : RegistryUriCall(c, a)

SpecConnection == InitConnection /\ [][NextConnection]_vars

\* --------------------------------------------- the naming of a child on its own

\* Partition names: empty, plain, with a separator inside, at the end, at the start,
\* and doubled.
JoinNames ==
    {<<>>, <<"a">>, <<"a", SLASH, "b">>, <<"a", SLASH>>, <<SLASH, "a">>,
     <<"a", SLASH, SLASH, "b">>}

\* Values of the dynamic parameter in the template: None, empty, plain, and with a
\* separator at the end and at the start.
JoinValues == {NoneValue, <<>>, <<"test">>, <<"x", SLASH>>, <<SLASH, "x">>}

\* The dynamic parameters, at the top level and nested.
JoinParameters == {<<"artifact_path">>, REGISTERED_MODEL_NAME}

\* The template that holds value v under the dynamic parameter.
TemplateWith(param, v) ==
    IF param = REGISTERED_MODEL_NAME
      THEN K("flavor") :> SKLEARN @@ K("save_args") :> SaveArgs(v)
      ELSE K("flavor") :> SKLEARN @@ K("artifact_path") :> Leaf(v)

\* The template without the dynamic parameter.
TemplateWithout == K("flavor") :> SKLEARN

\* The value a configuration holds under the parameter.
ValueAt(config, param) ==
    IF param = REGISTERED_MODEL_NAME
      THEN config[K("save_args")].m[K("registered_model_name")].v
      ELSE config[K("artifact_path")].v

\* _new_child_dataset(child_name) up to the call of the dataset type.
NewChildCall ==
    /\ fac.state = "named"
    /\ fac' = [fac EXCEPT !.state = "joined",
                  !.built = NewChildConfig(fac.template, {fac.param}, fac.n, <<>>)]
    /\ UNCHANGED <<runs, stack, parent_run_id, hk_datasets, hk_history, th, ncalls, nopened,
                   overlap, returned, processed, pdict, kp, cn, ml>>

InitJoin ==
    /\ InitMain
    /\ pdict = NoDict /\ kp = NoPaths
    /\ cn = NoConnection /\ ml = NoLogger
    /\ fac \in { [state |-> "named", n |-> n, param |-> param, present |-> TRUE, v |-> v,
                  template |-> TemplateWith(param, v),
                  built |-> [ok |-> FALSE, config |-> <<>>, template |-> <<>>]]
                 : n \in JoinNames, param \in JoinParameters, v \in JoinValues }
          \cup
               { [state |-> "named", n |-> n, param |-> param, present |-> FALSE, v |-> <<>>,
                  template |-> TemplateWithout,
                  built |-> [ok |-> FALSE, config |-> <<>>, template |-> <<>>]]
                 : n \in JoinNames, param \in JoinParameters }

NextJoin == NewChildCall

SpecJoin == InitJoin /\ [][NextJoin]_vars

\* ------------------------------------------------------------------ claims

ChildrenNamed(pid, name) == {r \in SearchRuns(pid) : NameOf(r) = name}

\* C1: sequential idempotent reuse. When the calls run one after the other, all the
\* start_child_run calls for one parent and one partition name return the same run
\* id, and the store holds exactly one run with that parent and that name: a second
\* save of the same partitions, by either dataset, adds no child run.
C1_IdempotentReuse ==
    \A x \in returned :
        /\ \A y \in returned : (x[1] = y[1] /\ x[2] = y[2]) => x[3] = y[3]
        /\ ChildrenNamed(x[1], x[2]) = {x[3]}

\* A second save, by the other dataset, has re-opened the run of a partition that
\* the first save created: the run holds what both datasets logged.
C1_Witness ==
    \E d \in Datasets :
        /\ th[d].op = "save" /\ th[d].pc = "done" /\ th[d].res = "ok"
        /\ \E i \in DOMAIN th[d].opened :
              /\ ~th[d].opened[i].new
              /\ {y[1] : y \in runs[th[d].opened[i].id].data} = {"foo", "bar"}

\* C2 as claimed: under any interleaving, the store holds at most one child run for
\* each pair of a parent run and a run name.
C2_AtMostOneChild ==
    \A pid \in 1..Len(runs), name \in Partitions :
        Cardinality(ChildrenNamed(pid, name)) <= 1

\* C2: the store holds at most one child run for each pair of a parent run and a run
\* name as long as no start_child_run call has searched while another call was
\* between its search and its start of the run.
C2_AtMostOneChildUnlessOverlap == ~overlap => C2_AtMostOneChild

\* Two calls in flight at once, neither having searched inside the other's window,
\* have opened the same child run: one created it, the other found it.
C2_Witness ==
    /\ ~overlap
    /\ \E p, q \in Procs :
          /\ p # q
          /\ th[p].pc \in {"body", "exit"} /\ th[q].pc \in {"body", "exit"}
          /\ th[p].opened[Len(th[p].opened)].new
          /\ ~th[q].opened[Len(th[q].opened)].new
          /\ th[p].opened[Len(th[p].opened)].id = th[q].opened[Len(th[q].opened)].id

\* The unit of C3: partition key "a" for one partitioned output.
UnitA == [metric |-> {"a"}]

BothUnitsProcessed ==
    /\ Len(processed) = 2
    /\ processed[1] = UnitA /\ processed[2] = UnitA
    /\ th[Hook].pc = "done"
    /\ "metric" \in hk_datasets

\* C3 as claimed: once after_node_run (is_async) has processed two units that each
\* hold key "a" for the same partitioned output, exactly one child run named "a"
\* exists under the parent.
C3_ExactlyOneAfterBothUnits ==
    (BothUnitsProcessed /\ Parent("metric").ok)
        => Cardinality(ChildrenNamed(Parent("metric").id, "a")) = 1

\* C3: an after_node_run call (is_async) on a unit in which no key occurs in more
\* than one partitioned output opens no child run, creates no run and confirms no
\* key: after both units, the hook has created no child run named "a".
C3_SingleOutputCreatesNothing ==
    LET t == th[Hook]
    IN  (/\ t.op = "hook" /\ t.async
         /\ \A k \in Partitions : Count(t.outputs, hk_datasets \cap DOMAIN t.outputs, k) <= 1)
        => /\ t.pc \in {"hookds", "done"}
           /\ t.opened = <<>> /\ t.started = {}
           /\ Len(runs) = t.nruns0

\* Both units are processed and no child run named "a" exists under the parent.
C3_Witness ==
    /\ BothUnitsProcessed
    /\ Parent("metric").ok
    /\ ChildrenNamed(Parent("metric").id, "a") = {}

\* C4 as claimed: the thunk stored under key p builds the child dataset with child
\* name p and the run id of the child run named p, and returns what was saved for p.
C4_ThunkBoundToItsKey ==
    \A d \in Datasets :
        \A i \in DOMAIN th[d].fetches :
            LET f == th[d].fetches[i]
            IN  /\ f.name = f.key
                /\ f.id = th[d].map[f.key]
                /\ f.value \subseteq {f.key}

\* The delegate save that failed, as an index of the batch.
IndexIn(batch, name) == CHOOSE i \in DOMAIN batch : batch[i] = name

\* C5: when the delegate save of a partition fails, save raises that failure; every
\* earlier partition keeps its child run and its payload; no later partition gets a
\* child run opened, a run created or a payload saved by this call.
C5_PartialFailureHalts ==
    \A d \in Datasets :
        LET t == th[d]
        IN  (t.op = "save" /\ t.pc = "done" /\ t.res = "raised" /\ t.err = "save")
            => LET i == IndexIn(t.batch, t.errAt)
               IN  /\ t.errAt = t.bad
                   /\ [j \in DOMAIN t.opened |-> t.opened[j].name] = SubSeq(t.batch, 1, i)
                   /\ [j \in DOMAIN t.logged |-> t.logged[j].name] = SubSeq(t.batch, 1, i - 1)
                   /\ \A j \in 1..(i - 1) :
                         \E r \in ChildrenNamed(t.par, t.batch[j]) :
                             <<Key(d), t.batch[j]>> \in runs[r].data
                   /\ \A r \in (t.nruns0 + 1)..Len(runs) :
                         NameOf(r) \in {t.batch[j] : j \in 1..i}

\* save of a, b, c has raised the failure of b, and no child run named c exists.
C5_Witness ==
    \E d \in Datasets :
        /\ th[d].op = "save" /\ th[d].pc = "done" /\ th[d].res = "raised"
        /\ th[d].batch = <<"a", "b", "c">> /\ th[d].errAt = "b"
        /\ ChildrenNamed(th[d].par, "a") # {}
        /\ ChildrenNamed(th[d].par, "c") = {}

\* C6: when a save call has returned or raised, the run stack is what it was when
\* the call began, the runs it ended are the runs it opened, and none of them is
\* left running.
C6_ScopedClosure ==
    \A d \in Datasets :
        LET t == th[d]
        IN  (t.op = "save" /\ t.pc = "done")
            => /\ Ids(stack) = t.stack0
               /\ t.closed = [j \in DOMAIN t.opened |-> t.opened[j].id]
               /\ \A j \in DOMAIN t.opened : runs[t.opened[j].id].status # "RUNNING"

\* A save has raised because the child dataset could not be built, after it had
\* opened the child run of that partition.
C6_Witness ==
    \E d \in Datasets :
        /\ th[d].op = "save" /\ th[d].pc = "done"
        /\ th[d].res = "raised" /\ th[d].err = "build"
        /\ Len(th[d].opened) = 1
        /\ Len(stack) > 0

\* C7 as claimed: the thunks invoked since load have fetched from the runs of the
\* partitions they were stored under only, one fetch for each invocation.
C7_FetchesOnlyInvoked ==
    \A d \in Datasets :
        th[d].pc = "loaded"
        => {NameOf(th[d].fetches[i].id) : i \in DOMAIN th[d].fetches}
              \subseteq {th[d].fetches[i].key : i \in DOMAIN th[d].fetches}

\* C8: the value under the protected parent key stays the value given at
\* construction whatever is written, also on a deep copy, which protects the same
\* keys; a write to another key takes effect.
C8_ProtectedTagImmutable ==
    DOMAIN pdict.given # {}
    => /\ pdict.pd.data[MLFLOW_PARENT_RUN_ID] = pdict.given[MLFLOW_PARENT_RUN_ID]
       /\ pdict.pd.protected = {MLFLOW_PARENT_RUN_ID}
       /\ pdict.last.key \notin {"", MLFLOW_PARENT_RUN_ID}
            => pdict.pd.data[pdict.last.key] = pdict.last.value

\* Another parent id has just been written to a deep copy of the mapping.
C8_Witness ==
    /\ pdict.copied
    /\ pdict.last.key = MLFLOW_PARENT_RUN_ID
    /\ pdict.last.value # pdict.given[MLFLOW_PARENT_RUN_ID]

\* C9 as claimed: a dataset without a configured parent resolves its parent to the
\* run on top of the run stack, the run opened last.
C9_ParentIsStackTop ==
    \A p \in Procs :
        LET t == th[p]
        IN  (t.par # 0 /\ parent_run_id[t.ds] = 0 /\ t.stack0 # <<>>)
            => t.par = t.stack0[Len(t.stack0)]

\* C10 as claimed: a save without a configured parent and with no run open does
\* not fail: every partition gets a child run under a run started for the purpose.
C10_SaveStartsParent ==
    \A d \in Datasets :
        LET t == th[d]
        IN  (/\ t.op = "save" /\ t.pc = "done" /\ t.bad = ""
             /\ t.stack0 = <<>> /\ parent_run_id[d] = 0)
            => /\ t.res = "ok"
               /\ \A j \in DOMAIN t.batch :
                     \E pid \in (t.nruns0 + 1)..Len(runs) :
                         ChildrenNamed(pid, t.batch[j]) # {}

\* The runs of the store tagged with the parent id pid.
TaggedWithParent(pid) ==
    {r \in 1..Len(runs) :
        MLFLOW_PARENT_RUN_ID \in DOMAIN runs[r].tags
        /\ runs[r].tags[MLFLOW_PARENT_RUN_ID] = pid}

\* A load whose find_children result still describes the store: no run was created
\* since the call began.
LoadJustSearched(d) ==
    /\ th[d].op = "load" /\ th[d].pc \in {"loaded", "done"}
    /\ th[d].par # 0
    /\ Len(runs) = th[d].nruns0

\* C11 as claimed: find_children on a parent that has no child runs returns an empty
\* mapping and raises no error.
C11_NoChildrenNoError ==
    \A d \in Datasets :
        (LoadJustSearched(d) /\ TaggedWithParent(th[d].par) = {})
            => th[d].res = "ok" /\ th[d].map = <<>>

\* C11: find_children on a parent that has no child runs raises DataSetError;
\* otherwise it returns a mapping whose keys are the run names of the runs tagged
\* with the parent's id, each mapped to the id of a run of that name and that
\* parent, and it holds no run of another parent.
C11_FindChildrenMapping ==
    \A d \in Datasets :
        LoadJustSearched(d)
            => LET kids == TaggedWithParent(th[d].par)
                   t == th[d]
               IN  IF kids = {}
                     THEN t.res = "raised" /\ t.err = "DataSetError" /\ t.map = <<>>
                     ELSE /\ t.res = "ok"
                          /\ DOMAIN t.map = {NameOf(r) : r \in kids}
                          /\ \A n \in DOMAIN t.map :
                                t.map[n] \in kids /\ NameOf(t.map[n]) = n

\* A load on an open parent run without child runs has raised DataSetError.
C11_Witness ==
    \E d \in Datasets :
        /\ LoadJustSearched(d)
        /\ TaggedWithParent(th[d].par) = {}
        /\ th[d].res = "raised" /\ th[d].err = "DataSetError"

\* join(n, v): the partition name, a slash, the value; an empty part is left out.
JoinNameFirst(n, v) ==
    IF n = <<>> THEN v ELSE IF v = <<>> THEN n ELSE n \o <<"/">> \o v

PathText(prefix, k) == IF prefix = <<>> THEN k.s ELSE prefix \o <<".">> \o k.s

RECURSIVE Substituted(_, _, _, _)
\* The configuration m with every leaf under a dynamic path joined to the name n.
Substituted(m, dynamic, n, prefix) ==
    [k \in DOMAIN m |->
        IF m[k].leaf
          THEN IF PathText(prefix, k) \in dynamic
                 THEN Leaf(JoinNameFirst(n, m[k].v))
                 ELSE m[k]
          ELSE Node(Substituted(m[k].m, dynamic, n, PathText(prefix, k)))]

C13_TemplateImmutable ==
    fac.state = "ready"
        => /\ fac.config = fac.config0
           /\ fac.dynamic = fac.dynamic0
           /\ fac.nbuilds > 0
                => LET fresh == NewChildDataset(fac.config0, fac.dynamic0,
                                                fac.built.name, fac.built.extra)
                   IN  fac.built.err = fresh.err /\ fac.built.config = fresh.config

\* Two builds for different partitions, the second one by a load thunk, both with
\* the dynamic parameter substituted.
C13_Witness ==
    /\ fac.state = "ready" /\ fac.nbuilds = 2
    /\ fac.prev.err = "" /\ fac.built.err = ""
    /\ fac.prev.name # fac.built.name
    /\ REGISTERED_MODEL_NAME \in fac.dynamic
    /\ K("save_args") \in DOMAIN fac.config0
    /\ fac.prev.extra = <<>>
    /\ K("run_id") \in DOMAIN fac.built.extra

\* A data_set configuration the child dataset cannot be constructed from.
CannotInstantiate(data_set) ==
    \/ K("flavor") \notin DOMAIN data_set
    \/ data_set[K("flavor")].v # <<"mlflow.sklearn">>

Components(key) ==
    CASE key = "a/b" -> <<"a", "b">>
      [] key = "a//b" -> <<"a", "", "b">>
      [] key = "a/b/" -> <<"a", "b", "">>
      [] OTHER -> <<key>>

IsComponent(c) == c # ""

\* normalize: the components in order, the empty ones dropped.
Normalize(key) == SelectSeq(Components(key), IsComponent)

\* C14 as claimed: within a save, partition keys with the same normalized name are
\* saved into the same child run, whose run name has the components of the
\* normalized name.
C14_NormalizedKeysShareRun ==
    \A d \in Datasets :
        LET t == th[d]
        IN  (t.op = "save" /\ t.pc = "done" /\ t.res = "ok")
            => \A i, j \in DOMAIN t.opened :
                  /\ Normalize(t.opened[i].name) = Normalize(t.opened[j].name)
                        => t.opened[i].id = t.opened[j].id
                  /\ Components(NameOf(t.opened[i].id)) = Normalize(t.opened[i].name)

\* The dataset types whose catalog entries are race-prone.
RaceProneTypes == {"MlflowPartitionedDataSet", "MlflowPartitionedModelLoggerDataSet"}

\* The key occurs in more than one output of the unit backed by a partitioned dataset.
InSeveralRaceProne(outputs, k) ==
    Cardinality({n \in DOMAIN outputs : Catalog[n] \in RaceProneTypes /\ k \in outputs[n]}) > 1

\* An after_node_run call with is_async true has returned.
HookReturned == th[Hook].op = "hook" /\ th[Hook].async /\ th[Hook].pc = "done" /\ th[Hook].res = "ok"

\* C15: when after_node_run (is_async) returns, every key that occurs in more than
\* one race-prone output of the unit and was not confirmed before is confirmed and
\* was opened by the call as a run of that name, the only one of that name under its
\* parent; any other key was not opened and, unless confirmed before, is not
\* confirmed; the call created runs for the keys it opened only.
C15_HookPreCreation ==
    HookReturned
        => LET t == th[Hook]
               before == hk_history \ t.started
           IN  /\ \A k \in Partitions :
                     IF InSeveralRaceProne(t.outputs, k) /\ k \notin before
                       THEN /\ k \in hk_history
                            /\ \E i \in DOMAIN t.opened :
                                  LET r == t.opened[i].id
                                  IN  /\ t.opened[i].name = k
                                      /\ ChildrenNamed(runs[r].tags[MLFLOW_PARENT_RUN_ID], k) = {r}
                       ELSE /\ \A i \in DOMAIN t.opened : t.opened[i].name # k
                            /\ k \notin t.started
               /\ \A r \in (t.nruns0 + 1)..Len(runs) :
                     InSeveralRaceProne(t.outputs, NameOf(r)) /\ NameOf(r) \notin before

\* The hook has returned from a unit with key "a" in both partitioned outputs and
\* key "b" in one: it created the run "a", and "b" is not confirmed.
C15_Witness ==
    /\ HookReturned
    /\ th[Hook].outputs = [metric |-> {"a"}, metric_history |-> {"a", "b"}]
    /\ th[Hook].started = {"a"}
    /\ Len(runs) = th[Hook].nruns0 + 1
    /\ hk_history = {"a"}

\* The step of an after_node_run call with is_async false.
SyncHookStep ==
    /\ ncalls' = ncalls + 1
    /\ th'[Hook].op = "hook" /\ ~th'[Hook].async

\* C16: an after_node_run call with is_async false returns at once, having opened no
\* run and confirmed no key, and its step leaves the run store, the run stack, the
\* race-prone set and the confirmed set unchanged.
C16_HookInactive ==
    /\ [](\A p \in {Hook} :
            (th[p].op = "hook" /\ ~th[p].async)
                => /\ th[p].pc = "done" /\ th[p].res = "ok"
                   /\ th[p].opened = <<>> /\ th[p].started = {} /\ th[p].par = 0)
    /\ [][SyncHookStep => UNCHANGED <<runs, stack, hk_datasets, hk_history>>]_vars

\* after_node_run has returned from a unit with key "a" in both partitioned outputs,
\* is_async false, while a run was open: no key is confirmed.
C16_Witness ==
    /\ th[Hook].op = "hook" /\ ~th[Hook].async /\ th[Hook].pc = "done"
    /\ th[Hook].outputs = [metric |-> {"a"}, metric_history |-> {"a", "b"}]
    /\ Len(stack) > 0
    /\ hk_history = {}

\* C17: once after_catalog_created has run, the race-prone set holds the name of
\* every catalog entry whose dataset is a MlflowPartitionedDataSet or of a subclass
\* of it, and no other name.
C17_RaceProneDetection ==
    hk_datasets # {}
        => \A n \in DOMAIN Catalog \cup hk_datasets :
              n \in hk_datasets <=> (n \in DOMAIN Catalog /\ Catalog[n] \in RaceProneTypes)

\* after_catalog_created has run: the entry of the subclass is race-prone, the CSV
\* entry is not.
C17_Witness ==
    /\ "model" \in hk_datasets /\ "metric" \in hk_datasets
    /\ "csv" \notin hk_datasets


\* The mappings nested in d, d included.
RECURSIVE Mappings(_)
Mappings(d) ==
    {d} \cup UNION {Mappings(d[k].m) : k \in {j \in DOMAIN d : ~d[j].leaf}}

\* The keys of d at every depth.
KeysOf(d) == UNION {DOMAIN m : m \in Mappings(d)}

SeparatorFree(d, sep) == \A k \in KeysOf(d) : \A i \in 1..Len(k.s) : k.s[i] # sep

TextKeys(d) == \A k \in KeysOf(d) : ~k.num /\ k.s # <<>>

NoEmptyMapping(d) == \A m \in Mappings(d) : m = d \/ m # <<>>

RoundTripDone == kp.stage = "back" /\ kp.recursive

\* C18 as stated: for every nested mapping with string or numeric keys none of
\* which holds the separator, unflattening the recursive flattening gives the
\* original mapping back, whatever the separator.
C18_RoundTrip ==
    (RoundTripDone /\ SeparatorFree(kp.m, kp.sep))
        => (kp.back.ok /\ kp.back.d = kp.m)

\* C18: for every nested mapping whose keys are non-empty texts none of which
\* holds the separator, and which nests no empty mapping, unflattening the
\* recursive flattening gives the original mapping back, whatever the separator.
C18_RoundTripTextKeys ==
    (RoundTripDone /\ SeparatorFree(kp.m, kp.sep) /\ TextKeys(kp.m) /\ NoEmptyMapping(kp.m))
        => (kp.back.ok /\ kp.back.d = kp.m)

C18_Witness ==
    /\ RoundTripDone
    /\ kp.sep = "_"
    /\ TextKeys(kp.m) /\ NoEmptyMapping(kp.m)
    /\ \E k \in DOMAIN kp.m : ~kp.m[k].leaf
          /\ \E c \in DOMAIN kp.m[k].m : ~kp.m[k].m[c].leaf
                /\ StrKey(<<"c", DOT, "d">>) \in DOMAIN kp.m[k].m[c].m
    /\ Cardinality(DOMAIN kp.flat.d) = 2
    /\ kp.back.ok /\ kp.back.d = kp.m

\* The number of levels of d: 1 for a mapping that nests no mapping.
RECURSIVE Depth(_)
Depth(d) ==
    LET below == {Depth(d[k].m) : k \in {j \in DOMAIN d : ~d[j].leaf}}
    IN  1 + (IF below = {} THEN 0 ELSE CHOOSE n \in below : \A o \in below : o <= n)

\* The key str(k) of a top-level key and the key parent-sep-child of a child.
TopKey(k) == StrKey(k.s)

ChildKey(k, c, sep) == StrKey(k.s \o <<sep>> \o c.s)

FlattenedOnce == kp.stage # "given" /\ ~kp.recursive /\ kp.flat.ok

\* C19: with recursive=False exactly one level is flattened: every key of the
\* result is a top-level key or parent-sep-child, a top-level value that is no
\* mapping keeps its key, the value of a child is kept as it is (a mapping at
\* depth two stays a nested mapping with its keys unchanged), and on a mapping
\* nested at most one level deep the result is the recursive one.
C19_DepthLimitedFlatten ==
    FlattenedOnce =>
        LET m == kp.m
            flat == kp.flat.d
            parents == {k \in DOMAIN m : ~m[k].leaf}
        IN  /\ DOMAIN flat = {TopKey(k) : k \in DOMAIN m \ parents}
                             \cup UNION {{ChildKey(k, c, kp.sep) : c \in DOMAIN m[k].m} : k \in parents}
            /\ \A k \in DOMAIN m \ parents : flat[TopKey(k)] = m[k]
            /\ \A k \in parents : \A c \in DOMAIN m[k].m :
                   flat[ChildKey(k, c, kp.sep)] = m[k].m[c]
            /\ Depth(m) <= 2 => kp.flat = FlattenDict(m, TRUE, kp.sep)

C19_Witness ==
    /\ FlattenedOnce
    /\ Depth(kp.m) = 3
    /\ \E k \in DOMAIN kp.m : \E c \in DOMAIN kp.m[k].m :
          /\ ~kp.m[k].m[c].leaf
          /\ Cardinality(DOMAIN kp.m[k].m[c].m) = 2
          /\ kp.flat.d[ChildKey(k, c, kp.sep)] = kp.m[k].m[c]
    /\ kp.flat # FlattenDict(kp.m, TRUE, kp.sep)


\* The value getkey is to select: the mapping's, else the variable's, else the default.
Selected(mapping, key, envkey, default, environ) ==
    IF key \in DOMAIN mapping THEN mapping[key]
    ELSE IF envkey \in DOMAIN environ THEN environ[envkey]
    ELSE default

\* C23: getkey returns the mapping's value when the key is in the mapping, else the
\* environment variable's value when it is set, else the default; it raises KeyError
\* naming the key and the environment variable exactly when the value so selected is
\* None, and returns nothing else.
C23_GetKeyPrecedence ==
    cn.op = "getkey" =>
        LET sel == Selected(cn.args[1], cn.args[2], cn.args[3], cn.args[4], cn.environ)
        IN  /\ cn.res.ok <=> sel # None
            /\ cn.res.ok => cn.res.value = sel
            /\ ~cn.res.ok => /\ cn.res.err = "KeyError"
                             /\ cn.res.key = cn.args[2] /\ cn.res.envkey = cn.args[3]

\* The key is not in the mapping, the variable is set and a default is given: the
\* variable's value is returned.
C23_Witness ==
    /\ cn.op = "getkey"
    /\ cn.args[1] = <<>> /\ cn.args[3] = "KEY" /\ cn.args[4] = "default"
    /\ "KEY" \in DOMAIN cn.environ
    /\ cn.res.ok /\ cn.res.value = "value"

\* C24 as claimed: on a connection that does not override registry_uri,
\* registry_uri(credentials, options) calls tracking_uri with the same credentials
\* and options and ends as that call ends.
C24_RegistryUriDelegates ==
    (cn.op = "registry_uri" /\ Len(cn.args) = 2)
        => /\ cn.called /\ cn.passed = cn.args
           /\ cn.res = TrackingUri(cn.conn, cn.args, cn.environ)

\* The value AzureMLConnection is to use for one of its three settings.
Option(options, key, envkey, environ) == Selected(options, key, envkey, None, environ)

\* C25 as claimed: AzureMLConnection.tracking_uri(credentials, options) and
\* registry_uri(credentials, options) name the workspace by the three options, each
\* taken from the environment when the options do not hold it, and raise KeyError
\* when one of the three is in neither.
C25_AzureMLOptions ==
    (/\ cn.op \in {"tracking_uri", "registry_uri"}
     /\ cn.conn = AzureMLConnection /\ Len(cn.args) = 2)
        => LET subscription_id ==
                   Option(cn.args[2], "subscription_id", "AZUREML_SUBSCRIPTION_ID", cn.environ)
               resource_group ==
                   Option(cn.args[2], "resource_group", "AZUREML_RESOURCE_GROUP", cn.environ)
               workspace_name ==
                   Option(cn.args[2], "workspace_name", "AZUREML_WORKSPACE_NAME", cn.environ)
           IN  IF None \in {subscription_id, resource_group, workspace_name}
                 THEN ~cn.res.ok /\ cn.res.err = "KeyError"
                 ELSE /\ cn.res.ok
                      /\ cn.res.value = <<subscription_id, resource_group, workspace_name>>


\* C22: a save with a run_id while another run is active raises a DataSetError,
\* logs no model into any run and leaves the run stack as it was; a save with a
\* run_id while no run is active opens that run, logs into it and ends it.
C22_ActiveRunConflict ==
    (ml.op = "save" /\ ml.run_id # 0) =>
        IF ml.stack0 # <<>>
          THEN ml.stack0[Len(ml.stack0)].id # ml.run_id
                 => /\ ml.res = "raised" /\ ml.err = "DataSetError"
                    /\ ml.events = <<>>
                    /\ ml.runs1 = ml.runs0
                    /\ ml.stack1 = ml.stack0
          ELSE /\ ml.res = "ok"
               /\ ml.events = <<<<"start_run", ml.run_id>>, <<"log_model", ml.run_id>>,
                                <<"end_run", ml.run_id>>>>
               /\ MODEL \in ml.runs1[ml.run_id].data
               /\ ml.runs1[ml.run_id].status = "FINISHED"
               /\ \A r \in DOMAIN ml.runs0 : r # ml.run_id => ml.runs1[r] = ml.runs0[r]
               /\ ml.stack1 = <<>>

\* A save with the id of the first run has failed while the second run was active,
\* and the first run holds no model.
C22_Witness ==
    /\ ml.op = "save" /\ ml.run_id = 1
    /\ Len(ml.stack0) = 1 /\ ml.stack0[1].id = 2
    /\ ml.res = "raised"
    /\ ml.runs1[1].data = {}


\* C26: every run start_child_run(p) returns is stored with the parent tag equal to
\* the id of the dataset's parent and the run name p, and carries every other tag of
\* the parent; this holds also when the run on top of the run stack was not the parent.
C26_ChildIdentityTags ==
    \A x \in returned :
        LET par == x[1]
            child == runs[x[3]].tags
        IN  /\ MLFLOW_PARENT_RUN_ID \in DOMAIN child /\ child[MLFLOW_PARENT_RUN_ID] = par
            /\ MLFLOW_RUN_NAME \in DOMAIN child /\ child[MLFLOW_RUN_NAME] = x[2]
            /\ \A k \in DOMAIN runs[par].tags \ {MLFLOW_RUN_NAME, MLFLOW_PARENT_RUN_ID} :
                   k \in DOMAIN child /\ child[k] = runs[par].tags[k]

\* A child run was created under the first run while the second run was on top of
\* the run stack, and it is tagged with the first.
C26_Witness ==
    \E d \in Datasets :
        LET t == th[d]
        IN  /\ t.op = "save" /\ t.pc = "body"
            /\ Len(t.opened) = 1 /\ t.opened[1].new
            /\ t.stack0 = <<1, 2>> /\ t.par = 1
            /\ <<1, t.opened[1].name, t.opened[1].id>> \in returned
            /\ runs[t.opened[1].id].tags[MLFLOW_PARENT_RUN_ID] = 1
            /\ runs[t.opened[1].id].tags[OWNER] = "u"

\* C27 as claimed: start_child_run leaves the parent's tags alone, in the store and
\* in the run object on the run stack: a run on the stack has the tags the store
\* holds for it, and no run is tagged as its own parent.
C27_ParentTagsUnchanged ==
    /\ \A i \in DOMAIN stack : stack[i].tags = runs[stack[i].id].tags
    /\ \A i \in DOMAIN stack :
          MLFLOW_PARENT_RUN_ID \in DOMAIN stack[i].tags
              => stack[i].tags[MLFLOW_PARENT_RUN_ID] # stack[i].id
    /\ \A r \in 1..Len(runs) :
          HasTag(r, MLFLOW_PARENT_RUN_ID) => runs[r].tags[MLFLOW_PARENT_RUN_ID] # r


Names(s) == [i \in DOMAIN s |-> s[i].name]

\* The record of a save call is in order: the child runs were opened for the
\* partitions of the batch in its order, each opened run but the last is closed,
\* and the last is open only while its payload is being built and saved.
SaveInOrder(t) ==
    LET n == Len(t.opened)
    IN  /\ Names(t.opened) = SubSeq(t.batch, 1, n)
        /\ Names(t.logged) = SubSeq(t.batch, 1, Len(t.logged))
        /\ \A i \in DOMAIN t.closed : i <= n /\ t.closed[i] = t.opened[i].id
        /\ \A i \in DOMAIN t.logged : i <= n /\ t.logged[i].id = t.opened[i].id
        /\ t.pc \in {"find", "start"} => Len(t.closed) = n /\ Len(t.logged) = n
        /\ t.pc = "body" => Len(t.closed) = n - 1 /\ Len(t.logged) = n - 1
        /\ t.pc = "exit" => Len(t.closed) = n - 1 /\ Len(t.logged) >= n - 1
        /\ t.pc = "done" => Len(t.closed) = n /\ Len(t.logged) >= n - 1
        /\ t.pc \in {"body", "exit"} => Len(stack) > 0 /\ Top.id = t.opened[n].id

\* A step of a save call opens a run only when every run it opened is closed, saves
\* a payload only into the run it has open, and closes only the run it has open.
SaveStepInOrder(d) ==
    LET t == th[d]
        u == th'[d]
    IN  (t.op = "save" /\ u.op = "save" /\ u.batch = t.batch /\ t.pc # "done") =>
            /\ Len(u.opened) > Len(t.opened)
                  => t.pc = "start" /\ u.pc = "body" /\ Len(t.closed) = Len(t.opened)
            /\ Len(u.logged) > Len(t.logged)
                  => t.pc = "body" /\ u.pc = "exit" /\ Len(t.closed) = Len(t.opened) - 1
            /\ Len(u.closed) > Len(t.closed)
                  => t.pc = "exit" /\ Len(u.closed) = Len(u.opened)

\* C28: within one save call the partitions are processed in the order of the input
\* mapping; for each partition the child run is opened, the child dataset is built
\* and the payload saved, and the child run is closed, in that order; the child run
\* of a partition is closed before the child run of the next is opened, so the call
\* has at most one of its child runs open.
C28_OrderedFanOut ==
    /\ [](\A d \in Datasets : th[d].op = "save" => SaveInOrder(th[d]))
    /\ [][\A d \in Datasets : SaveStepInOrder(d)]_vars

\* A save of the partitions b, a has opened, saved into and closed the run of b and
\* then the run of a, both created by it.
C28_Witness ==
    \E d \in Datasets :
        LET t == th[d]
        IN  /\ t.op = "save" /\ t.pc = "done" /\ t.res = "ok"
            /\ t.batch = <<"b", "a">>
            /\ Names(t.opened) = <<"b", "a">> /\ Names(t.logged) = <<"b", "a">>
            /\ Len(t.closed) = 2
            /\ t.opened[1].new /\ t.opened[2].new /\ t.opened[1].id < t.opened[2].id


\* What the run id holds under the key of dataset d.
Stored(d, id) == {x[2] : x \in {y \in runs[id].data : y[1] = Key(d)}}

\* An invocation of a thunk of dataset d adds one build and read of its own, which
\* returns what the backing run holds at that moment, and leaves the earlier results.
InvokedAfresh(d) ==
    LET f == th[d].fetches
        g == th'[d].fetches
    IN  (th[d].pc = "loaded" /\ th'[d].pc = "loaded" /\ ncalls' = ncalls /\ g # f) =>
            /\ Len(g) = Len(f) + 1
            /\ SubSeq(g, 1, Len(f)) = f
            /\ g[Len(g)].value = Stored(d, g[Len(g)].id)

\* C30: a load thunk keeps no result: each invocation builds the child dataset and
\* reads the run again, and returns what the run holds at the time of the invocation.
C30_NoThunkCaching == [][\A d \in Datasets : InvokedAfresh(d)]_vars

\* The same thunk was invoked twice, a value was logged into its run in between, and
\* the second invocation returned it.
C30_Witness ==
    \E d \in Datasets :
        LET f == th[d].fetches
        IN  /\ th[d].pc = "loaded" /\ Len(f) = 2
            /\ f[1].key = f[2].key /\ f[1].id = f[2].id
            /\ LATER \notin f[1].value /\ LATER \in f[2].value


\* The partition names saved under the parent pid, by either dataset.
SavedUnder(pid) == {x[2] : x \in {y \in returned : y[1] = pid}}

\* The load of dataset d has just returned or raised: the store is as it found it.
JustLoaded(d) == th[d].op = "load" /\ th[d].par # 0 /\ Len(runs) = th[d].nruns0

AtRisk == Problematic(LastUnit, hk_datasets \cap DOMAIN LastUnit)

\* C29 as claimed: once after_node_run (is_async) has returned for a unit, the saves
\* of its outputs, however they interleave, re-open the run of every key that occurs
\* in two or more of the unit's race-prone outputs, and the parent the outputs share
\* has one run of that name.
C29_SavesReopenPreCreated ==
    (processed # <<>> /\ th[Hook].pc = "done") =>
        \A d \in Datasets :
            th[d].op = "save" =>
                /\ \A i \in DOMAIN th[d].opened :
                      th[d].opened[i].name \in AtRisk => ~th[d].opened[i].new
                /\ \A k \in AtRisk : Cardinality(ChildrenNamed(th[d].par, k)) <= 1

\* The parent of the dataset has no child runs in the store.
Childless(d) == Parent(d).ok /\ SearchRuns(Parent(d).id) = {}

\* The step is a call of load by d on a childless parent: it ends with a DataSetError
\* that carries the parent's run id, and no mapping is returned.
LoadOnChildless(d) ==
    (Childless(d) /\ ncalls' = ncalls + 1 /\ th'[d] # th[d] /\ th'[d].op = "load")
        => /\ th'[d].pc = "done" /\ th'[d].res = "raised"
           /\ th'[d].err = "DataSetError" /\ th'[d].par = Parent(d).id
           /\ th'[d].map = <<>>
           /\ runs' = runs /\ stack' = stack

\* The step is one half of start_child_run by p on a childless parent: the search
\* raises nothing that leaves the call, and the start creates the run of the
\* partition under the parent and opens it.
StartOnChildless(p) ==
    LET t == th[p]
        pid == Parent(t.ds).id
        id == Len(runs) + 1
    IN  /\ (t.pc = "find" /\ Childless(t.ds) /\ th'[p] # t)
              => th'[p].pc = "start" /\ th'[p].found = 0 /\ th'[p].res = "none"
        /\ (t.pc = "start" /\ Childless(t.ds) /\ th'[p] # t)
              => /\ th'[p].pc = "body" /\ th'[p].res = "none"
                 /\ Len(runs') = id
                 /\ runs'[id].tags[MLFLOW_PARENT_RUN_ID] = pid
                 /\ runs'[id].tags[MLFLOW_RUN_NAME] = Head(t.todo)
                 /\ stack'[Len(stack')].id = id
                 /\ <<pid, Head(t.todo), id>> \in returned'

\* C31: load() on a parent run without child runs raises a DataSetError that names
\* the parent run id and returns no mapping, whereas start_child_run on a parent
\* without child runs raises nothing and creates the child run.
C31_LoadOnChildlessParent ==
    [][(\A d \in Datasets : LoadOnChildless(d)) /\ (\A p \in Procs : StartOnChildless(p))]_vars

\* A load on a parent without child runs has raised DataSetError, and the
\* start_child_run of a save that had searched the same parent has then created its
\* only child.
C31_Witness ==
    \E d, e \in Datasets :
        /\ th[d].op = "load" /\ th[d].res = "raised" /\ th[d].err = "DataSetError"
        /\ th[e].op = "save" /\ th[e].pc = "body" /\ th[e].par = th[d].par
        /\ Len(th[e].opened) = 1 /\ th[e].opened[1].new
        /\ SearchRuns(th[d].par) = {th[e].opened[1].id}

\* The keys the hook is about to resolve, or is resolving, through start_child_run.
HookPending ==
    IF th[Hook].op = "hook" /\ th[Hook].pc \in {"find", "start", "body"}
      THEN {th[Hook].todo[i] : i \in DOMAIN th[Hook].todo}
      ELSE {}

\* A step that adds to the confirmed set adds the one key whose child run
\* start_child_run has returned to the hook: the run is open, on top of the run
\* stack, and carries the key as its name and the parent's id.
ConfirmedAfterResolved ==
    hk_history' # hk_history =>
        LET t == th[Hook]
            k == Head(t.todo)
            run == t.opened[Len(t.opened)]
        IN  /\ t.op = "hook" /\ t.pc = "body" /\ t.res = "none"
            /\ hk_history' = hk_history \cup {k}
            /\ t.opened # <<>> /\ run.name = k
            /\ <<t.par, k, run.id>> \in returned
            /\ NameOf(run.id) = k
            /\ runs[run.id].tags[MLFLOW_PARENT_RUN_ID] = t.par

\* A step of the hook that reads or writes the run store (the search or the start
\* of start_child_run) is made for a key that is not in the confirmed set.
NoStoreStepForConfirmed ==
    (th[Hook].op = "hook" /\ th[Hook].pc \in {"find", "start"} /\ th'[Hook] # th[Hook])
        => Head(th[Hook].todo) \notin hk_history

\* C32: over the callbacks of one hook instance the race-prone set and the confirmed
\* set only grow, a key enters the confirmed set only once start_child_run has
\* returned its run without error, and the hook makes no run-store operation for a
\* key that is in the confirmed set.
C32_HookStateMonotonic ==
    /\ [](HookPending \cap hk_history = {})
    /\ [][/\ hk_datasets \subseteq hk_datasets'
          /\ hk_history \subseteq hk_history'
          /\ ConfirmedAfterResolved
          /\ NoStoreStepForConfirmed]_vars

\* A second call of the hook has returned for a unit whose key a, in two race-prone
\* outputs, was confirmed by the first call: it has started no run.
C32_Witness ==
    /\ Len(processed) = 2 /\ th[Hook].pc = "done" /\ th[Hook].async
    /\ "a" \in hk_history
    /\ "a" \in Problematic(th[Hook].outputs, hk_datasets \cap DOMAIN th[Hook].outputs)
    /\ th[Hook].opened = <<>> /\ Len(runs) = th[Hook].nruns0

\* The text starts, or ends, with the separator.
StartsWithSep(s) == s # <<>> /\ s[1] = SLASH

EndsWithSep(s) == s # <<>> /\ s[Len(s)] = SLASH

\* The number of empty components of a text that is not empty.
EmptyParts(s) ==
    IF s = <<>> THEN 0
    ELSE Cardinality({i \in DOMAIN Split(s, SLASH) : Split(s, SLASH)[i] = <<>>})

\* A child configuration has been built from a template that holds the parameter.
Joined == fac.state = "joined" /\ fac.present /\ fac.built.ok

\* The three cases of the join: both parts, the name alone, the value alone.
JoinCases ==
    LET n == fac.n
        v == fac.v
        r == ValueAt(fac.built.config, fac.param)
    IN  /\ (n # <<>> /\ Truthy(v)) => r = n \o <<SLASH>> \o v
        /\ (n # <<>> /\ ~Truthy(v)) => r = n
        /\ (n = <<>> /\ Truthy(v)) => r = v

\* C33 as claimed: the name built from partition name n and template value v is n,
\* separator, v when both are non-empty, n when v is empty or missing, v when n is
\* empty; the result never starts or ends with the separator, and the join
\* introduces no empty component.
C33_JoinNeverEdgeSeparator ==
    Joined =>
        LET r == ValueAt(fac.built.config, fac.param)
        IN  /\ JoinCases
            /\ ~StartsWithSep(r) /\ ~EndsWithSep(r)
            /\ EmptyParts(r) = EmptyParts(fac.n)
                                 + (IF Truthy(fac.v) THEN EmptyParts(fac.v) ELSE 0)

\* C33: the name built from partition name n and template value v is n, separator, v
\* when both are non-empty, n when v is empty or None, v when n is empty; the result
\* starts with the separator only when its first part does and ends with it only
\* when its last part does, and it has the empty components of n and of v and no
\* other; a template without the parameter is built without it.
C33_JoinDropsEmpty ==
    /\ Joined =>
          LET n == fac.n
              v == IF Truthy(fac.v) THEN fac.v ELSE <<>>
              r == ValueAt(fac.built.config, fac.param)
          IN  /\ JoinCases
              /\ StartsWithSep(r) => StartsWithSep(IF n # <<>> THEN n ELSE v)
              /\ EndsWithSep(r) => EndsWithSep(IF v # <<>> THEN v ELSE n)
              /\ EmptyParts(r) = EmptyParts(n) + EmptyParts(v)
    /\ (fac.state = "joined" /\ ~fac.present)
          => fac.built.ok /\ fac.built.config = TemplateWithout

\* The registered model name of partition "a/b" was built from the empty value of
\* the template: it is "a/b".
C33_Witness ==
    /\ Joined
    /\ fac.n = <<"a", SLASH, "b">> /\ fac.v = <<>> /\ fac.param = REGISTERED_MODEL_NAME
    /\ ValueAt(fac.built.config, fac.param) = <<"a", SLASH, "b">>

\* The outputs of the unit, among the hook's datasets, that hold the key.
OutputsWith(outputs, k) == {n \in hk_datasets \cap DOMAIN outputs : k \in outputs[n]}

\* The run store holds a run named k under the current parent of the dataset.
PreCreated(n, k) == Parent(n).ok /\ ChildrenNamed(Parent(n).id, k) # {}

\* C34 as claimed: when after_node_run (is_async) returns, every key that occurs in
\* more than one race-prone output of the unit has a child run of its name under the
\* current parent of each of those outputs, whatever was confirmed before and
\* whether or not the outputs share a parent.
C34_PreCreatedUnderEveryParent ==
    [][(th[Hook].pc # "done" /\ th'[Hook].pc = "done" /\ th'[Hook].async
            /\ th'[Hook].res = "ok")
        => \A k \in Problematic(th'[Hook].outputs, hk_datasets \cap DOMAIN th'[Hook].outputs) :
              \A n \in OutputsWith(th'[Hook].outputs, k) : PreCreated(n, k)']_vars

\* Every payload the save has logged went into a run whose name is the partition's.
RoutedByName(t) ==
    \A i \in DOMAIN t.logged :
        /\ NameOf(t.logged[i].id) = t.logged[i].name
        /\ <<Key(t.ds), t.logged[i].name>> \in runs[t.logged[i].id].data

\* Every run the save's scope exits have ended is the run the save had opened for
\* that partition.
EndsItsOwn(t) ==
    /\ Len(t.closed) <= Len(t.opened)
    /\ \A i \in DOMAIN t.closed : t.closed[i] = t.opened[i].id

\* C35 as claimed: however two saves that share the run stack interleave, each
\* partition's payload is logged to the child run named after the partition, and
\* each scope exit of a save ends the child run that this save opened.
C35_NoMisrouting ==
    \A d \in Datasets :
        th[d].op = "save" => RoutedByName(th[d]) /\ EndsItsOwn(th[d])

\* C36: MlflowModelLoggerDataSet.save with a run_id raises the DataSetError of the
\* active-run conflict whenever a run is open, the run that run_id names included,
\* and logs nothing; so a partitioned save whose template holds a run_id, once its
\* parent is resolved, opens the child run of its first partition, fails there,
\* ends that run and logs no model.
C36_RunIdWithAnyOpenRun ==
    /\ (ml.op = "save" /\ ml.run_id # 0 /\ ml.stack0 # <<>>)
          => /\ ml.res = "raised" /\ ml.err = "DataSetError"
             /\ ml.events = <<>>
             /\ ml.runs1 = ml.runs0 /\ ml.stack1 = ml.stack0
    /\ \A d \in Datasets :
          LET t == th[d]
          IN  (t.op = "save" /\ t.run_id # 0 /\ t.par # 0)
                => /\ t.logged = <<>>
                   /\ Len(t.opened) <= 1
                   /\ t.pc = "exit"
                         => /\ t.raised = "DataSetError"
                            /\ ml.run_id = t.run_id /\ runs = ml.runs0
                   /\ t.pc = "done"
                         => /\ t.res = "raised" /\ t.err = "DataSetError"
                            /\ t.errAt = t.batch[1]
                            /\ Len(t.opened) = 1 /\ t.opened[1].name = t.batch[1]
                            /\ t.closed = <<t.opened[1].id>>

\* A partitioned save of two partitions whose template names the child run of its
\* first partition has re-opened that run and failed there: the run that was open
\* was the one run_id names.
C36_Witness ==
    \E d \in Datasets :
        LET t == th[d]
        IN  /\ t.op = "save" /\ t.pc = "done" /\ t.res = "raised"
            /\ Len(t.batch) = 2
            /\ Len(t.opened) = 1 /\ t.run_id = t.opened[1].id /\ ~t.opened[1].new
            /\ ml.run_id = t.run_id /\ ml.stack0[Len(ml.stack0)].id = ml.run_id

====
